---- MODULE Spec2Model ----
(***************************************************************************)
(* State-machine model of the asisten Telegram bot (indrien/asisten).      *)
(*                                                                         *)
(* Spec      users collection: points economy and referral graph, one      *)
(*           handler or service call at a time.                            *)
(* SpecConc  the same operations cut at their storage awaits, several      *)
(*           invocations in flight.                                        *)
(* SpecMem   conversations collection: Memory Service operations.          *)
(* SpecSplit TelegramBot._split_message / split_text_by_length.            *)
(* SpecClone, SpecCloneConc  clone_bots collection: the Clone Bot Manager  *)
(*           and its handlers, one call at a time and interleaved.         *)
(* SpecAdmin admin commands, bans, broadcast and the default handlers.     *)
(* SpecChat  the default text and photo handlers of one user.              *)
(* SpecSweep the inactive-user sweep.                                      *)
(* SpecCodes referral-code generation in create_user, interleaved.         *)
(* SpecMain  the process: start-up checks, signals and shutdown.           *)
(* SpecTasks the supervising tasks of the clone bots.                      *)
(* SpecMemConc  Memory Service calls cut at their storage awaits.          *)
(* SpecClear /clear and its confirmation buttons.                          *)
(* SpecText  the default text handler on the characters of the text.       *)
(* SpecBanConc  ban_user and unban_user among the interleaved handlers.    *)
(* SpecRefConc  concurrent redemptions of referral codes.                  *)
(* SpecPanels   /broadcast and the presses of its confirm button.          *)
(* SpecLive     start, stop and delete of one clone, interleaved.          *)
(* SpecInstances  the storage client and the scheduler across Bot Cores.   *)
(* SpecTurns    the turn sequence submitted to the AI service.             *)
(* SpecCloneAdmin  the admin commands sent to a clone bot.                 *)
(*                                                                         *)
(* The User fields tracked are is_banned, is_admin, daily_points,          *)
(* total_points_used, last_reset, referral_code, referred_by,              *)
(* referral_count, referral_points, image_generated, has_clone_bot and     *)
(* clone_bot_id; last_activity and message_count are kept apart in         *)
(* `activity`, which only the sweep reads.  Names and join_date are        *)
(* written by the handlers but never read back by the operations modelled. *)
(***************************************************************************)
EXTENDS Integers, Sequences, FiniteSets, TLC

VARIABLES
    users,      \* users collection: user_id -> document
    now,        \* wall clock, hours of local (Asia/Jakarta) time
    ops,        \* number of invocations started so far
    last,       \* the last invocation: operation, caller, arguments, result
    calls,      \* SpecConc: invocations in flight, slot -> frame
    convs,      \* conversations collection: user_id -> document, while the
                \* calls run one at a time
    conv_docs,  \* conversations collection as the list of its documents,
                \* for the calls that interleave
    backups,    \* dictionaries returned by backup_conversation
    log,        \* per user, the messages appended since the last clear/restore
    nextMsg,    \* content of the next message
    text,       \* SpecSplit: the text handed to send_message_safe
    rest,       \* SpecSplit: local variable `text` of _split_message
    messages,   \* SpecSplit: local variable `messages` of _split_message
    splitPc,    \* SpecSplit: position in send_message_safe
    clones,     \* clone_bots collection: a set of documents
    pending_broadcast,  \* TelegramBot.pending_broadcast
    activity,   \* users collection: user_id -> last_activity, message_count
    active_clones,  \* CloneManager.active_clones: the tokens of running clones
    keyboard,   \* the callback data of the latest message sent with buttons
    clone_tasks,    \* CloneManager.clone_tasks: token -> supervising task,
                    \* with the is_connected flag of the client it watches
    mainPc,     \* position of main() in the process
    env,        \* the required settings that are present
    opened,     \* connections attempted so far: "storage", "platform"
    main_bot,   \* BotManager.main_bot: "none", "running" or "stopped"
    stops,      \* BotManager.stop tasks created by the signal handlers
    shutdown_event, \* BotManager.shutdown_event is set
    panels,     \* the /broadcast confirmation messages, in order of sending
    instances,  \* the TelegramBot objects the Clone Manager has created
    db_clients, \* the clients Database.connect has made; the last one is
                \* Database.client
    schedule    \* the process-wide schedule: its jobs and the scheduler loops

vars == <<users, now, ops, last, calls, convs, conv_docs, backups, log, nextMsg,
          text, rest, messages, splitPc, clones, pending_broadcast, activity,
          active_clones, keyboard, clone_tasks, mainPc, env,
          opened, main_bot, stops, shutdown_event, panels, instances,
          db_clients, schedule>>

userVars  == <<users, now, ops, last, calls>>
memVars   == <<convs, conv_docs, backups, log, nextMsg>>
splitVars == <<text, rest, messages, splitPc>>
botVars   == <<clones, pending_broadcast, activity, active_clones, keyboard>>
procVars  == <<mainPc, env, opened, main_bot, stops, shutdown_event>>
liveVars  == <<panels, instances, db_clients, schedule>>

----------------------------------------------------------------------------
(* Settings (config/settings.py)                                           *)

DAILY_POINTS == 3
REFERRAL_POINTS == 3
MAX_MESSAGE_LENGTH == 4096
MAX_MEMORY_MESSAGES == 50
OWNER_ID == 1

\* TIMEZONE = "Asia/Jakarta": UTC+7, no daylight saving.
TzOffset == 7
\* datetime.date(): one calendar day is 24 hours.
DayLen == 24

----------------------------------------------------------------------------
(* Bounds                                                                  *)

MaxOps == 5          \* invocations per behaviour
StartHour == 39      \* the clock starts at 15:00 of day 1
TickHours == 12      \* the clock advances in steps of TickHours
MaxTicks == 2        \* clock steps per behaviour
MaxGrant == 2        \* largest /givepoints amount drawn inside 1..100

Users == {1, 2}      \* user ids of the referral specification
Codes == {1, 2, 3}   \* referral codes the generator can draw
Subjects == {2}      \* user ids of the points specification
Callers == {1, 2}    \* who sends the admin commands
None == 0
NoCode == 0

----------------------------------------------------------------------------
(* models/user.py                                                          *)

\* User.__init__ for a new user: defaults of every tracked field.
NewUser(uid, code, t) ==
    [user_id |-> uid,
     is_banned |-> FALSE,
     is_admin |-> FALSE,
     has_clone_bot |-> FALSE,
     clone_bot_id |-> None,
     daily_points |-> DAILY_POINTS,
     total_points_used |-> 0,
     last_reset |-> [t |-> t, aware |-> TRUE],
     referral_code |-> code,
     referred_by |-> None,
     referral_count |-> 0,
     referral_points |-> 0,
     image_generated |-> 0]

\* A datetime is [t, aware]: t is its wall-clock reading in hours, aware says
\* whether it carries tzinfo (then the reading is Asia/Jakarta time).
\* User.to_dict followed by the BSON encoding of the driver: an aware
\* datetime is stored as its UTC instant; a naive one is taken to be UTC.
BsonDatetime(d) ==
    [t |-> IF d.aware THEN d.t - TzOffset ELSE d.t, aware |-> FALSE]

ToDoc(user) == [user EXCEPT !.last_reset = BsonDatetime(@)]

\* User.from_dict on a stored document: the client is built without
\* tz_aware, so datetimes come back naive, reading UTC.
FromDict(doc) == doc

\* The calendar date of an hour reading.
DateOf(h) == h \div DayLen

\* The Asia/Jakarta reading _check_daily_reset computes for last_reset:
\* tz.localize keeps the reading of a naive value, astimezone(tz) that of an
\* aware one (every aware value of the program is created in tz).
LocalizedReading(d) == d.t

\* User._check_daily_reset
CheckDailyReset(user, t) ==
    IF DateOf(t) > DateOf(LocalizedReading(user.last_reset))
    THEN [user EXCEPT !.daily_points = DAILY_POINTS,
                      !.last_reset = [t |-> t, aware |-> TRUE]]
    ELSE user

\* User.can_generate_image: [user, ok]
CanGenerateImage(user, t) ==
    IF user.is_banned
    THEN [user |-> user, ok |-> FALSE]
    ELSE LET u2 == CheckDailyReset(user, t)
         IN  [user |-> u2, ok |-> (u2.daily_points + u2.referral_points) > 0]

\* User.use_point: [user, ok]
UsePoint(user, point_type, t) ==
    LET chk == CanGenerateImage(user, t)
        u2 == chk.user
    IN  IF ~chk.ok THEN [user |-> u2, ok |-> FALSE]
        ELSE IF point_type = "referral" /\ u2.referral_points > 0
        THEN [user |-> [u2 EXCEPT !.referral_points = @ - 1,
                                  !.total_points_used = @ + 1,
                                  !.image_generated = @ + 1],
              ok |-> TRUE]
        ELSE IF u2.daily_points > 0
        THEN [user |-> [u2 EXCEPT !.daily_points = @ - 1,
                                  !.total_points_used = @ + 1,
                                  !.image_generated = @ + 1],
              ok |-> TRUE]
        ELSE [user |-> u2, ok |-> FALSE]

----------------------------------------------------------------------------
(* Storage: the users collection, keyed by the unique index on user_id     *)

\* insert_one
InsertOne(db, doc) ==
    [x \in DOMAIN db \cup {doc.user_id} |->
        IF x = doc.user_id THEN doc ELSE db[x]]

\* update_one({"user_id": uid}, {"$set": fields}) without upsert
SetFields(db, uid, doc) ==
    IF uid \in DOMAIN db THEN [db EXCEPT ![uid] = doc] ELSE db

\* find_one({"referral_code": code}): the users owning the code
CodeOwners(db, code) == {u \in DOMAIN db : db[u].referral_code = code}

----------------------------------------------------------------------------
(* services/user_service.py                                                *)

\* UserService.update_user: $set of the whole to_dict()
UpdateUser(db, user) == SetFields(db, user.user_id, ToDoc(user))

\* UserService._generate_unique_referral_code: draws until the code is owned
\* by nobody, so it returns some code of this set.
FreshCodes(db) == {c \in Codes : CodeOwners(db, c) = {}}

\* UserService.get_or_create_user: [db, user].  `code` is the code
\* create_user generated; update_activity touches untracked fields only.
GetOrCreateUser(db, uid, code, t) ==
    IF uid \in DOMAIN db
    THEN LET user == FromDict(db[uid])
         IN  [db |-> UpdateUser(db, user), user |-> user]
    ELSE LET user == NewUser(uid, code, t)
         IN  [db |-> InsertOne(db, ToDoc(user)), user |-> user]

\* UserService.ban_user / unban_user
SetBanned(db, uid, flag) ==
    IF uid \in DOMAIN db THEN [db EXCEPT ![uid].is_banned = flag] ELSE db

----------------------------------------------------------------------------
(* services/point_service.py                                               *)

CanUserGenerateImage_NoBanCheck(user, t) ==
    LET u2 == CheckDailyReset(user, t)
    IN  [user |-> u2, ok |-> (u2.daily_points + u2.referral_points) > 0]

\* PointService.can_user_generate_image: [user, ok]
CanUserGenerateImage(user, t) ==
    IF user.is_banned
    THEN [user |-> user, ok |-> FALSE]
    ELSE LET u2 == CheckDailyReset(user, t)
         IN  [user |-> u2, ok |-> (u2.daily_points + u2.referral_points) > 0]

\* PointService.get_user_points_info: the daily-reset check it starts with
\* is its only effect on the user object.
GetUserPointsInfo(user, t) == CheckDailyReset(user, t)

ResolveAuto_DailyFirst(user, point_type) ==
    IF point_type = "auto"
    THEN IF user.daily_points > 0 THEN "daily" ELSE "referral"
    ELSE point_type

\* The point type "auto" resolves to.
ResolveAuto(user, point_type) ==
    IF point_type = "auto"
    THEN IF user.referral_points > 0 THEN "referral" ELSE "daily"
    ELSE point_type

\* PointService.use_point_for_image: [db, user, ok]
UsePointForImage(db, user, point_type, t) ==
    LET chk == CanUserGenerateImage(user, t)
    IN  IF ~chk.ok
        THEN [db |-> db, user |-> chk.user, ok |-> FALSE]
        ELSE LET used == UsePoint(chk.user, ResolveAuto(chk.user, point_type), t)
             IN  IF used.ok
                 THEN [db |-> SetFields(db, used.user.user_id, ToDoc(used.user)),
                       user |-> used.user, ok |-> TRUE]
                 ELSE [db |-> db, user |-> used.user, ok |-> FALSE]

\* PointService.reset_daily_points(user_id): one user
ResetDailyPointsOne(db, uid, t) ==
    IF uid \in DOMAIN db
    THEN [db EXCEPT ![uid].daily_points = DAILY_POINTS,
                    ![uid].last_reset = BsonDatetime([t |-> t, aware |-> TRUE])]
    ELSE db

\* PointService.reset_daily_points(): update_many over every user
ResetDailyPointsAll(db, t) ==
    [u \in DOMAIN db |->
        [db[u] EXCEPT !.daily_points = DAILY_POINTS,
                      !.last_reset = BsonDatetime([t |-> t, aware |-> TRUE])]]

\* PointService.grant_bonus_points: $inc of one balance
GrantBonusPoints(db, uid, points, point_type) ==
    IF uid \notin DOMAIN db THEN db
    ELSE IF point_type = "referral"
    THEN [db EXCEPT ![uid].referral_points = @ + points]
    ELSE [db EXCEPT ![uid].daily_points = @ + points]

----------------------------------------------------------------------------
(* services/referral_service.py                                            *)

ProcessReferral_NoReferrerCredit(db, new_user_id, code) ==
    LET owners == CodeOwners(db, code) IN
    IF owners = {} THEN [db |-> db, res |-> "invalid"]
    ELSE
    LET referrer == FromDict(db[CHOOSE u \in owners : TRUE]) IN
    IF referrer.user_id = new_user_id THEN [db |-> db, res |-> "self"]
    ELSE IF new_user_id \in DOMAIN db /\ db[new_user_id].referred_by # None
    THEN [db |-> db, res |-> "already"]
    ELSE IF new_user_id \notin DOMAIN db
    THEN [db |-> db, res |-> "unregistered"]
    ELSE
    LET new_user == [FromDict(db[new_user_id]) EXCEPT
                        !.referred_by = referrer.user_id,
                        !.referral_points = @ + REFERRAL_POINTS]
        db1 == UpdateUser(db, new_user)
        referrer2 == [referrer EXCEPT !.referral_count = @ + 1]
    IN  [db |-> UpdateUser(db1, referrer2), res |-> "ok"]

ProcessReferral_NoSelfCheck(db, new_user_id, code) ==
    LET owners == CodeOwners(db, code) IN
    IF owners = {} THEN [db |-> db, res |-> "invalid"]
    ELSE
    LET referrer == FromDict(db[CHOOSE u \in owners : TRUE]) IN
    IF new_user_id \in DOMAIN db /\ db[new_user_id].referred_by # None
    THEN [db |-> db, res |-> "already"]
    ELSE IF new_user_id \notin DOMAIN db
    THEN [db |-> db, res |-> "unregistered"]
    ELSE
    LET new_user == [FromDict(db[new_user_id]) EXCEPT
                        !.referred_by = referrer.user_id,
                        !.referral_points = @ + REFERRAL_POINTS]
        db1 == UpdateUser(db, new_user)
        referrer2 == [referrer EXCEPT
                        !.referral_count = @ + 1,
                        !.referral_points = @ + REFERRAL_POINTS]
    IN  [db |-> UpdateUser(db1, referrer2), res |-> "ok"]

ProcessReferral_NoRedeemedCheck(db, new_user_id, code) ==
    LET owners == CodeOwners(db, code) IN
    IF owners = {} THEN [db |-> db, res |-> "invalid"]
    ELSE
    LET referrer == FromDict(db[CHOOSE u \in owners : TRUE]) IN
    IF referrer.user_id = new_user_id THEN [db |-> db, res |-> "self"]
    ELSE IF new_user_id \notin DOMAIN db
    THEN [db |-> db, res |-> "unregistered"]
    ELSE
    LET new_user == [FromDict(db[new_user_id]) EXCEPT
                        !.referred_by = referrer.user_id,
                        !.referral_points = @ + REFERRAL_POINTS]
        db1 == UpdateUser(db, new_user)
        referrer2 == [referrer EXCEPT
                        !.referral_count = @ + 1,
                        !.referral_points = @ + REFERRAL_POINTS]
    IN  [db |-> UpdateUser(db1, referrer2), res |-> "ok"]

\* ReferralService.process_referral: [db, res]
ProcessReferral(db, new_user_id, code) ==
    LET owners == CodeOwners(db, code) IN
    IF owners = {} THEN [db |-> db, res |-> "invalid"]
    ELSE
    LET referrer == FromDict(db[CHOOSE u \in owners : TRUE]) IN
    IF referrer.user_id = new_user_id THEN [db |-> db, res |-> "self"]
    ELSE IF new_user_id \in DOMAIN db /\ db[new_user_id].referred_by # None
    THEN [db |-> db, res |-> "already"]
    ELSE IF new_user_id \notin DOMAIN db
    THEN [db |-> db, res |-> "unregistered"]
    ELSE
    LET new_user == [FromDict(db[new_user_id]) EXCEPT
                        !.referred_by = referrer.user_id,
                        !.referral_points = @ + REFERRAL_POINTS]
        db1 == UpdateUser(db, new_user)
        referrer2 == [referrer EXCEPT
                        !.referral_count = @ + 1,
                        !.referral_points = @ + REFERRAL_POINTS]
    IN  [db |-> UpdateUser(db1, referrer2), res |-> "ok"]

\* ReferralService.reset_user_referral_stats
ResetReferralStats(db, uid) ==
    LET db1 == IF uid \in DOMAIN db
               THEN [db EXCEPT ![uid].referral_count = 0,
                               ![uid].referral_points = 0,
                               ![uid].referred_by = None]
               ELSE db
    IN  [u \in DOMAIN db1 |->
            IF db1[u].referred_by = uid
            THEN [db1[u] EXCEPT !.referred_by = None]
            ELSE db1[u]]

----------------------------------------------------------------------------
(* handlers/user_handlers.py, handlers/admin_handlers.py                   *)

\* The refund of handle_image_generation: "Return the point".
RefundPoint(user) ==
    [user EXCEPT !.daily_points = @ + 1,
                 !.total_points_used = @ - 1,
                 !.image_generated = @ - 1]

\* TelegramBot.is_owner / is_admin and AdminHandlers.is_admin, primary bot
IsAdmin(uid) == uid = OWNER_ID

\* What the platform does to the two direct client calls of /image: the
\* "processing" send_message and the edit_message_text (tried again in the
\* except branch).
PlatformOutcomes == {"ok", "send_fails", "edit_fails_once", "edit_fails_twice"}
Prompts == {"missing", "short", "ok"}
PointTypes == {"daily", "referral"}

NoObj == [user_id |-> 0]

\* The record of an invocation: operation, caller or target, referral code
\* argument, other argument, result, and (for the calls that only change the
\* user object in memory) that object before and after.  streak lists the
\* <<referral_points, daily_points>> balances around the successful
\* use_point_for_image(user, "auto") calls made in a row; caller is the
\* sender of an admin command.
Rec(op, uid, code, arg, res, before, after) ==
    [op |-> op, uid |-> uid, code |-> code, arg |-> arg, res |-> res,
     before |-> before, after |-> after, streak |-> <<>>, caller |-> None]

Balances(doc) == <<doc.referral_points, doc.daily_points>>

\* One more invocation may start.
Begin ==
    /\ ops < MaxOps
    /\ ops' = ops + 1
    /\ UNCHANGED <<calls, memVars, splitVars, botVars, clone_tasks, procVars, liveVars>>

\* The outcome of /start: [db, res]
Start(db, u, param, code, t) ==
    LET g == GetOrCreateUser(db, u, code, t)
    IN  IF param # NoCode /\ g.user.referred_by = None
        THEN ProcessReferral(g.db, u, param)
        ELSE [db |-> g.db, res |-> "none"]

\* UserHandlers.handle_start; param is the code of "/start ref_<code>", or
\* NoCode for a bare "/start"
HandleStart(u, param, code) ==
    /\ Begin
    /\ LET r == Start(users, u, param, code, now)
       IN  /\ users' = r.db
           /\ last' = Rec("start", u, param, "", r.res, NoObj, NoObj)
    /\ UNCHANGED now

\* The outcome of a text message that is a candidate referral code
\* ("ref_<code>" or 8 upper-case characters): [db, res]
TextCode(db, u, param, code, t) ==
    LET g == GetOrCreateUser(db, u, code, t)
    IN  IF g.user.is_banned THEN [db |-> g.db, res |-> "banned"]
        ELSE IF g.user.referred_by = None
        THEN ProcessReferral(g.db, u, param)
        ELSE [db |-> g.db, res |-> "chat"]

\* UserHandlers.handle_text_message on such a text
HandleTextCode(u, param, code) ==
    /\ Begin
    /\ LET r == TextCode(users, u, param, code, now)
       IN  /\ users' = r.db
           /\ last' = Rec("text", u, param, "", r.res, NoObj, NoObj)
    /\ UNCHANGED now

\* ReferralService.process_referral called on its own
CallProcessReferral(u, param) ==
    /\ Begin
    /\ LET r == ProcessReferral(users, u, param)
       IN  /\ users' = r.db
           /\ last' = Rec("process_referral", u, param, "", r.res, NoObj, NoObj)
    /\ UNCHANGED now

\* ReferralService.reset_user_referral_stats
CallResetReferralStats(u) ==
    /\ Begin
    /\ users' = ResetReferralStats(users, u)
    /\ last' = Rec("reset_user_referral_stats", u, NoCode, "", "done",
                   NoObj, NoObj)
    /\ UNCHANGED now

\* The outcome of /image: [db, res]
ImageGeneration(db, u, prompt, net, code, t) ==
    LET g == GetOrCreateUser(db, u, code, t)
        chk == CanUserGenerateImage(g.user, t)
        used == UsePointForImage(g.db, chk.user, "auto", t)
    IN  IF ~chk.ok THEN [db |-> g.db, res |-> "no_points"]
        ELSE IF prompt = "missing" THEN [db |-> g.db, res |-> "format"]
        ELSE IF prompt = "short" THEN [db |-> g.db, res |-> "short"]
        ELSE IF ~used.ok THEN [db |-> used.db, res |-> "charge_failed"]
        ELSE IF net \in {"send_fails", "edit_fails_twice"}
        THEN [db |-> used.db, res |-> "error"]
        ELSE [db |-> UpdateUser(used.db, RefundPoint(used.user)),
              res |-> "refunded"]

\* UserHandlers.handle_image_generation
HandleImageGeneration(u, prompt, net, code) ==
    /\ Begin
    /\ LET r == ImageGeneration(users, u, prompt, net, code, now)
       IN  /\ users' = r.db
           /\ last' = Rec("image", u, NoCode, net, r.res, NoObj, NoObj)
    /\ UNCHANGED now

\* UserHandlers.handle_points: get_or_create_user, then get_user_points_info
\* on the object it returned
HandlePoints(u, code) ==
    /\ Begin
    /\ LET g == GetOrCreateUser(users, u, code, now)
       IN  /\ users' = g.db
           /\ last' = Rec("get_user_points_info", u, NoCode, "", "done",
                          g.user, GetUserPointsInfo(g.user, now))
    /\ UNCHANGED now

\* PointService.can_user_generate_image on the user read from storage
CallCanUserGenerateImage(u) ==
    /\ Begin
    /\ u \in DOMAIN users
    /\ LET user == FromDict(users[u])
           chk == CanUserGenerateImage(user, now)
       IN  last' = Rec("can_user_generate_image", u, NoCode, "",
                       IF chk.ok THEN "true" ELSE "false", user, chk.user)
    /\ UNCHANGED <<users, now>>

\* PointService.use_point_for_image on the user read from storage
CallUsePointForImage(u, point_type) ==
    /\ Begin
    /\ u \in DOMAIN users
    /\ LET r == UsePointForImage(users, FromDict(users[u]), point_type, now)
           rec == Rec("use_point_for_image", u, NoCode, point_type,
                      IF r.ok THEN "true" ELSE "false", NoObj, NoObj)
           inRow == /\ last.op = "use_point_for_image" /\ last.uid = u
                    /\ last.streak # <<>>
       IN  /\ users' = r.db
           /\ last' = IF r.ok /\ point_type = "auto"
                      THEN [rec EXCEPT !.streak =
                               IF inRow THEN Append(last.streak, Balances(r.db[u]))
                               ELSE <<Balances(users[u]), Balances(r.db[u])>>]
                      ELSE rec
    /\ UNCHANGED now

\* PointService.reset_daily_points() for every user: the scheduled job and
\* the maintenance callback
CallResetDailyPoints ==
    /\ Begin
    /\ users' = ResetDailyPointsAll(users, now)
    /\ last' = Rec("reset_daily_points", None, NoCode, "", "done", NoObj, NoObj)
    /\ UNCHANGED now

\* AdminHandlers.handle_reset_points with a user id
HandleResetPoints(caller, target) ==
    /\ Begin
    /\ IF ~IsAdmin(caller)
       THEN /\ last' = [Rec("resetpoints", target, NoCode, "", "denied",
                            NoObj, NoObj) EXCEPT !.caller = caller]
            /\ UNCHANGED users
       ELSE /\ users' = ResetDailyPointsOne(users, target, now)
            /\ last' = [Rec("resetpoints", target, NoCode, "", "done",
                            NoObj, NoObj) EXCEPT !.caller = caller]
    /\ UNCHANGED now

GivePoints_NoRange(db, caller, target, points, point_type) ==
    IF ~IsAdmin(caller) THEN [db |-> db, res |-> "denied"]
    ELSE [db |-> GrantBonusPoints(db, target, points, point_type),
          res |-> IF target \in DOMAIN db THEN "granted" ELSE "failed"]

\* The outcome of /givepoints <target> <points> <point_type>: [db, res]
GivePoints(db, caller, target, points, point_type) ==
    IF ~IsAdmin(caller) THEN [db |-> db, res |-> "denied"]
    ELSE IF points <= 0 \/ points > 100 THEN [db |-> db, res |-> "range"]
    ELSE [db |-> GrantBonusPoints(db, target, points, point_type),
          res |-> IF target \in DOMAIN db THEN "granted" ELSE "failed"]

\* AdminHandlers.handle_give_points
HandleGivePoints(caller, target, points, point_type) ==
    /\ Begin
    /\ LET r == GivePoints(users, caller, target, points, point_type)
       IN  /\ users' = r.db
           /\ last' = [Rec("givepoints", target, NoCode, point_type, r.res,
                           NoObj, NoObj) EXCEPT !.caller = caller]
    /\ UNCHANGED now

\* UserService.ban_user / unban_user
CallBanUser(u) ==
    /\ Begin
    /\ users' = SetBanned(users, u, TRUE)
    /\ last' = Rec("ban_user", u, NoCode, "", "done", NoObj, NoObj)
    /\ UNCHANGED now

CallUnbanUser(u) ==
    /\ Begin
    /\ users' = SetBanned(users, u, FALSE)
    /\ last' = Rec("unban_user", u, NoCode, "", "done", NoObj, NoObj)
    /\ UNCHANGED now

\* Time passes.
Tick ==
    /\ now + TickHours <= StartHour + MaxTicks * TickHours
    /\ now' = now + TickHours
    /\ last' = Rec("tick", None, NoCode, "", "done", NoObj, NoObj)
    /\ UNCHANGED <<users, ops, calls, memVars, splitVars, botVars, clone_tasks, procVars, liveVars>>

\* The code create_user generates when u has no record yet.  Codes are opaque
\* identifiers, so the least unused one stands for whichever the generator
\* returns.
CreateCodes(u) ==
    IF u \in DOMAIN users THEN {NoCode}
    ELSE {c \in FreshCodes(users) : \A d \in FreshCodes(users) : c <= d}

\* Amounts an admin types after /givepoints.
GrantAmounts == {-1, 0, 101} \cup (1..MaxGrant)

EmptyDb == [u \in {} |-> NoObj]

\* TelegramBot without the pending_broadcast attribute
NoBroadcast == [text |-> "", admin_id |-> None]

\* No clone bot, no broadcast awaiting confirmation.
InitBot ==
    /\ clones = {}
    /\ pending_broadcast = NoBroadcast
    /\ activity = EmptyDb
    /\ active_clones = {}
    /\ keyboard = {}

\* Settings.validate: the settings that must be present
Required == {"BOT_TOKEN", "API_ID", "API_HASH", "GEMINI_API_KEY", "OWNER_ID"}

\* The process once BotManager.start waits on the shutdown latch: settings
\* complete, storage and platform connected, no clone started, no signal.
\* The primary bot has been initialized: one storage client, open, and the
\* reset jobs and scheduler loops of its two PointService objects; no
\* /broadcast sent and no clone started.
InitLive ==
    /\ panels = <<>>
    /\ instances = <<>>
    /\ db_clients = <<"open">>
    /\ schedule = [jobs |-> 2, loops |-> 2]

InitProc ==
    /\ clone_tasks = <<>>
    /\ mainPc = "running"
    /\ env = Required
    /\ opened = {"storage", "platform"}
    /\ main_bot = "running"
    /\ stops = <<>>
    /\ shutdown_event = FALSE

Init ==
    /\ users = EmptyDb
    /\ now = StartHour
    /\ ops = 0
    /\ last = Rec("init", None, NoCode, "", "done", NoObj, NoObj)
    /\ calls = <<>>
    /\ convs = EmptyDb
    /\ backups = {}
    /\ conv_docs = <<>>
    /\ log = <<>>
    /\ nextMsg = 1
    /\ text = <<>>
    /\ rest = <<>>
    /\ messages = <<>>
    /\ splitPc = "idle"
    /\ InitBot
    /\ InitProc
    /\ InitLive

\* The referral graph: redemption through /start, through a text message and
\* through the service, the admin reset, bans.
Next ==
    \/ \E u \in Users, param \in {NoCode} \cup Codes :
          \E code \in CreateCodes(u) : HandleStart(u, param, code)
    \/ \E u \in Users, param \in Codes :
          \E code \in CreateCodes(u) : HandleTextCode(u, param, code)
    \/ \E u \in Users, param \in Codes : CallProcessReferral(u, param)
    \/ \E u \in Users : CallResetReferralStats(u)
    \/ \E u \in Users : CallBanUser(u)
    \/ \E u \in Users : CallUnbanUser(u)

Spec == Init /\ [][Next]_vars

\* The points economy of one user.
NextPoints ==
    \/ \E u \in Subjects, prompt \in Prompts, net \in PlatformOutcomes :
          \E code \in CreateCodes(u) : HandleImageGeneration(u, prompt, net, code)
    \/ \E u \in Subjects : \E code \in CreateCodes(u) : HandlePoints(u, code)
    \/ \E u \in Subjects : CallCanUserGenerateImage(u)
    \/ \E u \in Subjects, pt \in PointTypes \cup {"auto"} :
          CallUsePointForImage(u, pt)
    \/ CallResetDailyPoints
    \/ \E c \in Callers, u \in Subjects : HandleResetPoints(c, u)
    \/ \E c \in Callers, u \in Subjects, n \in GrantAmounts, pt \in PointTypes :
          HandleGivePoints(c, u, n, pt)
    \/ \E u \in Subjects : CallBanUser(u)
    \/ \E u \in Subjects : CallUnbanUser(u)
    \/ Tick

SpecPoints == Init /\ [][NextPoints]_vars

----------------------------------------------------------------------------
(* Properties of the referral graph (Spec)                                 *)

\* The step is a redemption attempt: process_referral on its own, or the
\* /start and text handlers.
Redeeming(rec) == rec.op \in {"process_referral", "start", "text"}

\* The tracked balance of a user that may not have a record yet.
PointsBefore(db, u) == IF u \in DOMAIN db THEN db[u].referral_points ELSE 0

\* C1: every successful process_referral(new_user_id, code) adds exactly
\* REFERRAL_POINTS to the redeemer's referral_points and sets its referred_by
\* to the code owner, adds exactly REFERRAL_POINTS to the owner's
\* referral_points and exactly 1 to the owner's referral_count.
C1_ReferralReward ==
    [][(Redeeming(last') /\ last'.res = "ok") =>
        \E owner \in DOMAIN users :
            /\ users[owner].referral_code = last'.code
            /\ users'[last'.uid].referral_points =
                  PointsBefore(users, last'.uid) + REFERRAL_POINTS
            /\ users'[last'.uid].referred_by = owner
            /\ users'[owner].referral_points =
                  users[owner].referral_points + REFERRAL_POINTS
            /\ users'[owner].referral_count = users[owner].referral_count + 1
      ]_vars

\* C1 witness: a redemption has succeeded; the owner counts one referral.
C1_Witness ==
    /\ last.op = "process_referral" /\ last.res = "ok"
    /\ users[last.uid].referred_by # None
    /\ users[users[last.uid].referred_by].referral_count = 1
    /\ users[users[last.uid].referred_by].referral_points >= REFERRAL_POINTS

\* C2: process_referral fails when the code belongs to the redeeming user and
\* when the redeeming user already has referred_by set, and then no
\* referral_points, referral_count or referred_by changes.
C2_RejectedRedemption ==
    [][(/\ Redeeming(last')
        /\ last'.uid \in DOMAIN users
        /\ \/ users[last'.uid].referral_code = last'.code
           \/ users[last'.uid].referred_by # None)
       => /\ last'.res # "ok"
          /\ DOMAIN users' = DOMAIN users
          /\ \A u \in DOMAIN users :
                /\ users'[u].referral_points = users[u].referral_points
                /\ users'[u].referral_count = users[u].referral_count
                /\ users'[u].referred_by = users[u].referred_by
      ]_vars

\* C2 witness: a second redemption was refused after a first one succeeded
\* (the refused code belongs to somebody).
C2_Witness ==
    /\ last.op = "process_referral" /\ last.res = "already"
    /\ users[last.uid].referred_by # None
    /\ users[last.uid].referral_points = REFERRAL_POINTS

\* C3 as claimed: once referred_by is set it is never cleared or changed,
\* reset_user_referral_stats included.
C3_NeverCleared ==
    [][\A u \in DOMAIN users :
          users[u].referred_by # None =>
             /\ u \in DOMAIN users'
             /\ users'[u].referred_by = users[u].referred_by
      ]_vars

\* C3 amended: referred_by, once set, is changed by reset_user_referral_stats
\* alone, which clears it (for the user reset and for the users that user
\* referred) and never replaces it by another referrer; and a redemption
\* pays a user only while that user's referred_by is unset.
C3_ClearedOnlyByReset ==
    [][/\ \A u \in DOMAIN users :
             users[u].referred_by # None =>
                /\ u \in DOMAIN users'
                /\ \/ users'[u].referred_by = users[u].referred_by
                   \/ /\ last'.op = "reset_user_referral_stats"
                      /\ last'.uid \in {u, users[u].referred_by}
                      /\ users'[u].referred_by = None
       /\ (Redeeming(last') /\ last'.res = "ok") =>
             (last'.uid \in DOMAIN users => users[last'.uid].referred_by = None)
       /\ \A u \in DOMAIN users :
             (u \in DOMAIN users'
                /\ users'[u].referral_points > users[u].referral_points
                /\ users'[u].referred_by # None
                /\ users[u].referred_by # None)
             => (Redeeming(last') /\ last'.uid # u)
      ]_vars

\* C3 witness: a user that has redeemed sends /start ref_<code> again and
\* nothing is paid.
C3_Witness ==
    /\ last.op = "start" /\ last.res = "none" /\ last.code # NoCode
    /\ users[last.uid].referred_by # None
    /\ users[last.uid].referral_points = REFERRAL_POINTS

----------------------------------------------------------------------------
(* Properties of the point balances (SpecPoints)                           *)

\* C4: every /image invocation that passes the eligibility check and the
\* prompt checks ends with daily_points, total_points_used and
\* image_generated equal to their values before the invocation, whatever the
\* starting balance.  Stated for the invocations of a registered user whose
\* platform calls all succeed and in which no daily reset falls.
C4_ImageLeavesBalances ==
    [][(/\ last'.op = "image" /\ last'.arg = "ok"
        /\ last'.res \notin {"no_points", "format", "short"}
        /\ last'.uid \in DOMAIN users
        /\ users'[last'.uid].last_reset = users[last'.uid].last_reset)
       => /\ users'[last'.uid].daily_points = users[last'.uid].daily_points
          /\ users'[last'.uid].total_points_used =
                users[last'.uid].total_points_used
          /\ users'[last'.uid].image_generated =
                users[last'.uid].image_generated
      ]_vars

\* C5: a successful use_point_for_image(user, "auto") takes the point from
\* referral_points whenever referral_points > 0 and from daily_points only
\* when referral_points = 0 (daily_points being read after the daily-reset
\* check of the call); from (referral_points, daily_points) = (2, 3) three
\* calls in a row give (0, 3) after the second and (0, 2) after the third.
C5_ReferralFirst ==
    /\ [][(/\ last'.op = "use_point_for_image" /\ last'.arg = "auto"
           /\ last'.res = "true")
          => LET pre == users[last'.uid]
                 post == users'[last'.uid]
             IN  IF pre.referral_points > 0
                 THEN /\ post.referral_points = pre.referral_points - 1
                      /\ post.daily_points \in {pre.daily_points, DAILY_POINTS}
                 ELSE /\ post.referral_points = 0
                      /\ post.daily_points \in
                            {pre.daily_points - 1, DAILY_POINTS - 1}
                      /\ post.daily_points >= 0
         ]_vars
    /\ [](/\ last.op = "use_point_for_image"
          /\ Len(last.streak) >= 4
          /\ last.streak[1] = <<2, 3>>
          => /\ last.streak[2] = <<1, 3>>
             /\ last.streak[3] = <<0, 3>>
             /\ last.streak[4] = <<0, 2>>)

\* C5 witness: three calls in a row were made from (2, 3).
C5_Witness ==
    /\ last.op = "use_point_for_image" /\ last.arg = "auto"
    /\ Len(last.streak) = 4
    /\ last.streak[1] = <<2, 3>>
    /\ Balances(users[last.uid]) = <<0, 2>>

\* The Asia/Jakarta reading of the instant a datetime value denotes: a naive
\* value read back from storage reads UTC.
LocalInstant(d) == IF d.aware THEN d.t ELSE d.t + TzOffset

\* C7: on can_user_generate_image and get_user_points_info a non-banned user
\* whose last_reset lies on a local calendar date strictly before today's
\* gets daily_points = DAILY_POINTS and last_reset = now, and a user whose
\* last_reset lies on today's local date keeps daily_points and last_reset.
C7_ResetOncePerLocalDay ==
    (/\ last.op \in {"can_user_generate_image", "get_user_points_info"}
     /\ ~last.before.is_banned)
    => IF DateOf(LocalInstant(last.before.last_reset)) < DateOf(now)
       THEN /\ last.after.daily_points = DAILY_POINTS
            /\ LocalInstant(last.after.last_reset) = now
       ELSE /\ last.after.daily_points = last.before.daily_points
            /\ LocalInstant(last.after.last_reset) =
                  LocalInstant(last.before.last_reset)

----------------------------------------------------------------------------
(* models/conversation.py and services/memory_service.py                   *)
(* A message is the number of the add_message call that appended it; a     *)
(* stored Conversation is its list of messages.                            *)

MemUsers == {1, 2}       \* user ids of the memory specification
SummaryMsg == 0          \* the synthetic summary message of optimize

\* The last n elements of a list: messages[-n:]
LastN(msgs, n) ==
    IF Len(msgs) <= n THEN msgs ELSE SubSeq(msgs, Len(msgs) - n + 1, Len(msgs))

ConversationAddMessage_KeepFirst(msgs, m) ==
    LET appended == Append(msgs, m)
    IN  IF Len(appended) > MAX_MEMORY_MESSAGES
        THEN SubSeq(appended, 1, MAX_MEMORY_MESSAGES)
        ELSE appended

ConversationAddMessage_NoCap(msgs, m) == Append(msgs, m)

\* Conversation.add_message
ConversationAddMessage(msgs, m) ==
    LET appended == Append(msgs, m)
    IN  IF Len(appended) > MAX_MEMORY_MESSAGES
        THEN LastN(appended, MAX_MEMORY_MESSAGES)
        ELSE appended

\* update_one(..., upsert=True) of one conversation document
Upsert(db, uid, msgs) ==
    [u \in DOMAIN db \cup {uid} |-> IF u = uid THEN msgs ELSE db[u]]

\* MemoryService.get_or_create_conversation: the messages of the object
GetOrCreateConversation(db, uid) == IF uid \in DOMAIN db THEN db[uid] ELSE <<>>

BeginMem ==
    /\ ops < MaxOps
    /\ ops' = ops + 1
    /\ UNCHANGED <<users, now, calls, conv_docs, splitVars, botVars, clone_tasks,
                   procVars, liveVars>>

MemRec(op, uid, res) == Rec(op, uid, NoCode, "", res, NoObj, NoObj)

\* MemoryService.add_message
AddMessage(u) ==
    /\ BeginMem
    /\ LET msgs == ConversationAddMessage(GetOrCreateConversation(convs, u),
                                          nextMsg)
       IN  convs' = Upsert(convs, u, msgs)
    /\ log' = Upsert(log, u, Append(GetOrCreateConversation(log, u), nextMsg))
    /\ nextMsg' = nextMsg + 1
    /\ last' = MemRec("add_message", u, "true")
    /\ UNCHANGED backups

\* MemoryService.clear_conversation
ClearConversation(u) ==
    /\ BeginMem
    /\ convs' = IF u \in DOMAIN convs THEN [convs EXCEPT ![u] = <<>>] ELSE convs
    /\ log' = IF u \in DOMAIN log THEN [log EXCEPT ![u] = <<>>] ELSE log
    /\ last' = MemRec("clear_conversation", u,
                      IF u \in DOMAIN convs /\ convs[u] = <<>>
                      THEN "false" ELSE "true")
    /\ UNCHANGED <<backups, nextMsg>>

\* MemoryService.backup_conversation: the dictionary handed to the caller
BackupConversation(u) ==
    /\ BeginMem
    /\ u \in DOMAIN convs
    /\ backups' = backups \cup {convs[u]}
    /\ last' = MemRec("backup_conversation", u, "dict")
    /\ UNCHANGED <<convs, log, nextMsg>>

\* MemoryService.restore_conversation of a dictionary backup_conversation
\* returned earlier, for any user
RestoreConversation(u, backup_data) ==
    /\ BeginMem
    /\ convs' = Upsert(convs, u, backup_data)
    /\ log' = Upsert(log, u, backup_data)
    /\ last' = MemRec("restore_conversation", u, "true")
    /\ UNCHANGED <<backups, nextMsg>>

\* MemoryService.optimize_memory_usage
OptimizeMemoryUsage(u) ==
    /\ BeginMem
    /\ LET half == (MAX_MEMORY_MESSAGES + 1) \div 2
           over == u \in DOMAIN convs /\ Len(convs[u]) > MAX_MEMORY_MESSAGES
           msgs == IF over THEN <<SummaryMsg>> \o LastN(convs[u], half)
                   ELSE <<>>
       IN  /\ convs' = IF over THEN [convs EXCEPT ![u] = msgs] ELSE convs
           /\ log' = IF over THEN [log EXCEPT ![u] = msgs] ELSE log
           /\ last' = MemRec("optimize_memory_usage", u,
                             IF over THEN "summarized" ELSE "true")
    /\ UNCHANGED <<backups, nextMsg>>

\* The conversation MAX_MEMORY_MESSAGES - 1 add_message calls leave behind.
FilledConversation == [i \in 1..(MAX_MEMORY_MESSAGES - 1) |-> i]

\* The memory specification starts with no conversation stored, or with the
\* conversation of user 1 one message short of the cap.
InitMem ==
    /\ users = EmptyDb
    /\ now = StartHour
    /\ ops = 0
    /\ last = Rec("init", 0, NoCode, "", "done", NoObj, NoObj)
    /\ calls = <<>>
    /\ \/ /\ convs = EmptyDb
          /\ log = EmptyDb
          /\ nextMsg = 1
       \/ /\ convs = (1 :> FilledConversation)
          /\ log = (1 :> FilledConversation)
          /\ nextMsg = MAX_MEMORY_MESSAGES
    /\ backups = {}
    /\ conv_docs = <<>>
    /\ text = <<>>
    /\ rest = <<>>
    /\ messages = <<>>
    /\ splitPc = "idle"
    /\ InitBot
    /\ InitProc
    /\ InitLive

NextMem ==
    \/ \E u \in MemUsers : AddMessage(u)
    \/ \E u \in MemUsers : ClearConversation(u)
    \/ \E u \in MemUsers : BackupConversation(u)
    \/ \E u \in MemUsers : \E b \in backups : RestoreConversation(u, b)
    \/ \E u \in MemUsers : OptimizeMemoryUsage(u)

SpecMem == InitMem /\ [][NextMem]_vars

\* C8: once more than MAX_MEMORY_MESSAGES messages have been appended to a
\* user's conversation by add_message calls in a row, the stored
\* conversation is exactly the MAX_MEMORY_MESSAGES most recently appended
\* messages in their order of appending.
C8_KeepsMostRecent ==
    \A u \in DOMAIN convs :
        Len(log[u]) > MAX_MEMORY_MESSAGES =>
            /\ Len(convs[u]) = MAX_MEMORY_MESSAGES
            /\ \A i \in 1..MAX_MEMORY_MESSAGES :
                  convs[u][i] = log[u][Len(log[u]) - MAX_MEMORY_MESSAGES + i]

\* C8 witness: the cap was passed by more than one message; the oldest two
\* are gone.
C8_Witness ==
    /\ last.op = "add_message"
    /\ 1 \in DOMAIN convs
    /\ Len(log[1]) = MAX_MEMORY_MESSAGES + 2
    /\ convs[1][1] = 3
    /\ convs[1][MAX_MEMORY_MESSAGES] = MAX_MEMORY_MESSAGES + 2

----------------------------------------------------------------------------
(* core/bot.py: TelegramBot._split_message                                 *)
(* A text is a sequence of characters; "x" stands for every character      *)
(* other than the newline.                                                 *)

NL == "\n"

Line(n) == [i \in 1..n |-> "x"]
Newlines(n) == [i \in 1..n |-> NL]

\* Lengths of the runs of ordinary characters, around the limit.
RunLens == {0, 1, MAX_MESSAGE_LENGTH - 1, MAX_MESSAGE_LENGTH,
            MAX_MESSAGE_LENGTH + 1}
\* Lengths of the runs of newlines between them.
NlRuns == {0, 1, 2}

\* The texts send_message_safe hands to _split_message: longer than the
\* limit.
Texts ==
    {t \in {Line(a) \o Newlines(j) \o Line(b) \o Newlines(k) \o Line(c) :
               a \in RunLens, j \in NlRuns, b \in RunLens, k \in NlRuns,
               c \in {0, 1, MAX_MESSAGE_LENGTH - 1}} :
        Len(t) > MAX_MESSAGE_LENGTH}

\* str.rfind(ch, start, end): the highest 0-based index in [start, end) that
\* holds ch, or -1.
RFind_Unbounded(s, ch, start, end) ==
    LET hits == {i \in start..(Len(s) - 1) : s[i + 1] = ch}
    IN  IF hits = {} THEN -1
        ELSE CHOOSE i \in hits : \A j \in hits : j <= i

RFind(s, ch, start, end) ==
    LET stop == IF end < Len(s) THEN end ELSE Len(s)
        hits == {i \in start..(stop - 1) : s[i + 1] = ch}
    IN  IF hits = {} THEN -1
        ELSE CHOOSE i \in hits : \A j \in hits : j <= i

\* s[pos:], pos a 0-based index
From(s, pos) == SubSeq(s, pos + 1, Len(s))

\* s[:pos]
UpTo(s, pos) == SubSeq(s, 1, IF pos < Len(s) THEN pos ELSE Len(s))

\* str.lstrip(ch)
LStrip(s, ch) ==
    LET kept == {i \in 1..Len(s) : s[i] # ch}
    IN  IF kept = {} THEN <<>>
        ELSE SubSeq(s, CHOOSE i \in kept : \A j \in kept : i <= j, Len(s))

BeginSplit == UNCHANGED <<userVars, memVars, botVars, clone_tasks, procVars, liveVars>>

\* send_message_safe calls _split_message(text): messages = []
SplitCall(t) ==
    /\ splitPc = "idle"
    /\ text' = t
    /\ rest' = t
    /\ messages' = <<>>
    /\ splitPc' = "loop"
    /\ BeginSplit

\* One iteration of the while loop of _split_message
SplitLoop ==
    /\ splitPc = "loop"
    /\ Len(rest) > MAX_MESSAGE_LENGTH
    /\ LET found == RFind(rest, NL, 0, MAX_MESSAGE_LENGTH)
           split_pos == IF found = -1 THEN MAX_MESSAGE_LENGTH ELSE found
       IN  /\ messages' = Append(messages, UpTo(rest, split_pos))
           /\ rest' = LStrip(From(rest, split_pos), NL)
    /\ UNCHANGED <<text, splitPc>>
    /\ BeginSplit

\* The end of _split_message: the remainder, when not empty, is the last
\* chunk
SplitReturn ==
    /\ splitPc = "loop"
    /\ Len(rest) <= MAX_MESSAGE_LENGTH
    /\ messages' = IF rest # <<>> THEN Append(messages, rest) ELSE messages
    /\ rest' = <<>>
    /\ splitPc' = "done"
    /\ UNCHANGED text
    /\ BeginSplit

InitSplit ==
    /\ users = EmptyDb
    /\ now = StartHour
    /\ ops = 0
    /\ last = Rec("init", 0, NoCode, "", "done", NoObj, NoObj)
    /\ calls = <<>>
    /\ convs = EmptyDb
    /\ backups = {}
    /\ conv_docs = <<>>
    /\ log = EmptyDb
    /\ nextMsg = 1
    /\ text = <<>>
    /\ rest = <<>>
    /\ messages = <<>>
    /\ splitPc = "idle"
    /\ InitBot
    /\ InitProc
    /\ InitLive

NextSplit ==
    \/ \E t \in Texts : SplitCall(t)
    \/ SplitLoop
    \/ SplitReturn

SpecSplit == InitSplit /\ [][NextSplit]_vars

\* The positions (1-based) of the newlines among the first
\* MAX_MESSAGE_LENGTH characters of a text.
NewlinesInReach(s) ==
    {i \in 1..MAX_MESSAGE_LENGTH : i <= Len(s) /\ s[i] = NL}

\* C10: no chunk _split_message produces is longer than MAX_MESSAGE_LENGTH;
\* every cut falls at the last newline among the first MAX_MESSAGE_LENGTH
\* characters of the remaining text (the chunk is what precedes it), or,
\* when these hold no newline, after exactly MAX_MESSAGE_LENGTH characters.
C10_SplitAtLastNewline ==
    /\ [](\A i \in 1..Len(messages) : Len(messages[i]) <= MAX_MESSAGE_LENGTH)
    /\ [][(splitPc = "loop" /\ Len(rest) > MAX_MESSAGE_LENGTH) =>
            /\ Len(messages') = Len(messages) + 1
            /\ LET chunk == messages'[Len(messages')]
                   nls == NewlinesInReach(rest)
               IN  IF nls = {}
                   THEN /\ Len(chunk) = MAX_MESSAGE_LENGTH
                        /\ chunk = SubSeq(rest, 1, MAX_MESSAGE_LENGTH)
                   ELSE /\ Len(chunk) + 1 \in nls
                        /\ \A i \in nls : i <= Len(chunk) + 1
                        /\ chunk = SubSeq(rest, 1, Len(chunk))
         ]_vars

\* C10 witness: a text was cut once at a newline and once after exactly
\* MAX_MESSAGE_LENGTH characters.
C10_Witness ==
    /\ splitPc = "done"
    /\ Len(messages) >= 3
    /\ \E i \in 1..Len(messages) : Len(messages[i]) = MAX_MESSAGE_LENGTH
    /\ \E i \in 1..Len(messages) :
          /\ Len(messages[i]) = MAX_MESSAGE_LENGTH - 1
          /\ Len(text) > Len(messages[i])
          /\ i = 1 /\ text[MAX_MESSAGE_LENGTH] = NL


\* C40: every chunk _split_message has produced is non-empty, whatever the
\* text, also when the text begins with a newline and holds no other
\* newline among its first MAX_MESSAGE_LENGTH characters.
C40_NoEmptyChunk ==
    \A i \in 1..Len(messages) : messages[i] # <<>>

----------------------------------------------------------------------------
(* Handlers interleaved at their storage awaits (SpecConc)                 *)
(* Every handler invocation runs as a task of its own; it keeps the User   *)
(* objects it has read and gives way at each storage call.                 *)

Slots == {1, 2}          \* handler invocations in flight at once

Idle ==
    [op |-> "none", pc |-> "idle", uid |-> None, user |-> NoObj,
     referrer |-> NoObj]

Frame(op, pc, uid, user, referrer) ==
    [op |-> op, pc |-> pc, uid |-> uid, user |-> user, referrer |-> referrer]

\* A new invocation takes the first free slot.
FreeSlot(s) ==
    /\ calls[s].pc = "idle"
    /\ \A r \in Slots : calls[r].pc = "idle" => s <= r

StepConc == UNCHANGED <<now, ops, last, memVars, splitVars, botVars, clone_tasks, procVars, liveVars>>

\* handle_image_generation, get_or_create_user: get_user has returned
ImageGetUser(s, u) ==
    /\ FreeSlot(s)
    /\ ops < MaxOps
    /\ u \in DOMAIN users
    /\ ops' = ops + 1
    /\ calls' = [calls EXCEPT ![s] =
                    Frame("image", "loaded", u, FromDict(users[u]), NoObj)]
    /\ UNCHANGED <<users, now, last, memVars, splitVars, botVars, clone_tasks, procVars, liveVars>>

\* get_or_create_user: update_activity, update_user
ImageUpdateActivity(s) ==
    /\ calls[s].op = "image" /\ calls[s].pc = "loaded"
    /\ users' = UpdateUser(users, calls[s].user)
    /\ calls' = [calls EXCEPT ![s].pc = "touched"]
    /\ StepConc

\* can_user_generate_image and use_point_for_image: the eligibility check,
\* the charge on the object and its write
ImageUsePoint(s) ==
    /\ calls[s].op = "image" /\ calls[s].pc = "touched"
    /\ LET chk == CanUserGenerateImage(calls[s].user, now)
           used == UsePointForImage(users, chk.user, "auto", now)
       IN  IF chk.ok /\ used.ok
           THEN /\ users' = used.db
                /\ calls' = [calls EXCEPT ![s].pc = "charged",
                                          ![s].user = used.user]
           ELSE /\ users' = users
                /\ calls' = [calls EXCEPT ![s] = Idle]
    /\ StepConc

\* the refund of either branch: update_user of the object
ImageRefund(s) ==
    /\ calls[s].op = "image" /\ calls[s].pc = "charged"
    /\ users' = UpdateUser(users, RefundPoint(calls[s].user))
    /\ calls' = [calls EXCEPT ![s] = Idle]
    /\ StepConc

\* the processing message cannot be sent, or neither edit goes through:
\* the handler ends without the refund
ImageError(s) ==
    /\ calls[s].op = "image" /\ calls[s].pc = "charged"
    /\ calls' = [calls EXCEPT ![s] = Idle]
    /\ UNCHANGED users
    /\ StepConc

\* process_referral: get_user_by_referral_code has returned the owner of
\* the code, who is not the redeeming user
ReferralGetReferrer(s, u, code) ==
    /\ FreeSlot(s)
    /\ ops < MaxOps
    /\ u \in DOMAIN users
    /\ CodeOwners(users, code) # {}
    /\ LET referrer == FromDict(users[CHOOSE o \in CodeOwners(users, code) : TRUE])
       IN  /\ referrer.user_id # u
           /\ calls' = [calls EXCEPT ![s] =
                           Frame("referral", "found", u, NoObj, referrer)]
    /\ ops' = ops + 1
    /\ UNCHANGED <<users, now, last, memVars, splitVars, botVars, clone_tasks, procVars, liveVars>>

\* process_referral: get_user(new_user_id) and the check of referred_by
ReferralGetUser(s) ==
    /\ calls[s].op = "referral" /\ calls[s].pc = "found"
    /\ LET new_user == FromDict(users[calls[s].uid])
       IN  calls' = IF new_user.referred_by # None
                    THEN [calls EXCEPT ![s] = Idle]
                    ELSE [calls EXCEPT ![s].pc = "read", ![s].user = new_user]
    /\ UNCHANGED users
    /\ StepConc

\* process_referral: update_user(new_user)
ReferralUpdateNewUser(s) ==
    /\ calls[s].op = "referral" /\ calls[s].pc = "read"
    /\ LET new_user == [calls[s].user EXCEPT
                           !.referred_by = calls[s].referrer.user_id,
                           !.referral_points = @ + REFERRAL_POINTS]
       IN  /\ users' = UpdateUser(users, new_user)
           /\ calls' = [calls EXCEPT ![s].pc = "paid", ![s].user = new_user]
    /\ StepConc

\* process_referral: update_user(referrer)
ReferralUpdateReferrer(s) ==
    /\ calls[s].op = "referral" /\ calls[s].pc = "paid"
    /\ LET referrer == [calls[s].referrer EXCEPT
                           !.referral_count = @ + 1,
                           !.referral_points = @ + REFERRAL_POINTS]
       IN  users' = UpdateUser(users, referrer)
    /\ calls' = [calls EXCEPT ![s] = Idle]
    /\ StepConc

\* Two users have registered with /start.
InitConc ==
    /\ users = InsertOne(InsertOne(EmptyDb, ToDoc(NewUser(1, 1, StartHour))),
                         ToDoc(NewUser(2, 2, StartHour)))
    /\ now = StartHour
    /\ ops = 2
    /\ last = Rec("init", 0, NoCode, "", "done", NoObj, NoObj)
    /\ calls = [s \in Slots |-> Idle]
    /\ convs = EmptyDb
    /\ backups = {}
    /\ conv_docs = <<>>
    /\ log = EmptyDb
    /\ nextMsg = 1
    /\ text = <<>>
    /\ rest = <<>>
    /\ messages = <<>>
    /\ splitPc = "idle"
    /\ InitBot
    /\ InitProc
    /\ InitLive

NextConc ==
    \/ \E s \in Slots, u \in Subjects : ImageGetUser(s, u)
    \/ \E s \in Slots : ImageUpdateActivity(s)
    \/ \E s \in Slots : ImageUsePoint(s)
    \/ \E s \in Slots : ImageRefund(s)
    \/ \E s \in Slots : ImageError(s)
    \/ \E s \in Slots, u \in Subjects, code \in Codes :
          ReferralGetReferrer(s, u, code)
    \/ \E s \in Slots : ReferralGetUser(s)
    \/ \E s \in Slots : ReferralUpdateNewUser(s)
    \/ \E s \in Slots : ReferralUpdateReferrer(s)
    \/ CallResetDailyPoints
    \/ \E c \in Callers, u \in Subjects, n \in GrantAmounts, pt \in PointTypes :
          HandleGivePoints(c, u, n, pt)
    \/ Tick

SpecConc == InitConc /\ [][NextConc]_vars

\* The User objects the invocations in flight hold.
HeldObjects ==
    {calls[s].user : s \in DOMAIN calls} \cup
    {calls[s].referrer : s \in DOMAIN calls}

\* C6: in every reachable state every user has daily_points >= 0 and
\* referral_points >= 0, in storage and in every object a handler holds,
\* whatever the interleaving of /image charges and refunds, redemptions,
\* daily resets and /givepoints grants.
C6_BalancesNonNegative ==
    /\ \A u \in DOMAIN users :
          /\ users[u].daily_points >= 0
          /\ users[u].referral_points >= 0
          /\ users[u].daily_points + users[u].referral_points >= 0
    /\ \A obj \in HeldObjects :
          obj # NoObj => obj.daily_points >= 0 /\ obj.referral_points >= 0

\* C6 witness: two /image invocations of one user are both charged and not
\* yet refunded, each from a balance without referral points, and the
\* stored balance has reached zero.
C6_Witness ==
    /\ \A s \in Slots :
          /\ calls[s].op = "image" /\ calls[s].pc = "charged"
          /\ calls[s].uid = 2
          /\ calls[s].user.referral_points = 0
    /\ users[2].daily_points = 0
    /\ users[2].referral_points = 0

----------------------------------------------------------------------------
(* core/clone_manager.py, models/clone_bot.py, handlers/clone_handlers.py, *)
(* handlers/callback_handlers.py: the clone bots.                          *)
(*                                                                         *)
(* A bot token is "<bot id>:<secret>"; it is kept as the record of its two *)
(* parts.  The platform decides whether a token opens a session (the       *)
(* `valid` input) and whether a created clone starts (`started`).          *)

Tokens ==
    {[id |-> 10000001, secret |-> "A"], [id |-> 10000002, secret |-> "B"],
     [id |-> 7, secret |-> "C"]}

\* handle_create_bot_with_params: ':' in the token and at least 8
\* characters before it
WellFormed(tok) == tok.id >= 10000000

\* CloneBot.__init__ and to_dict for the fields create_clone_bot passes
CloneBotDoc(tok, creator, admin) ==
    [bot_token |-> tok, creator_id |-> creator, admin_id |-> admin,
     is_active |-> TRUE]

\* find_one({"bot_token": ...}) / find_one({"creator_id": ...}): the matches
ByToken(cl, tok) == {c \in cl : c.bot_token = tok}
ByCreator(cl, creator) == {c \in cl : c.creator_id = creator}

\* update_one on the users collection, $set has_clone_bot and clone_bot_id
SetCloneFields(db, uid, flag, bot_id) ==
    IF uid \in DOMAIN db
    THEN [db EXCEPT ![uid].has_clone_bot = flag, ![uid].clone_bot_id = bot_id]
    ELSE db

CreateCloneBot_NoCreatorCheck(cl, db, tok, creator, admin, valid) ==
    IF ~valid THEN [clones |-> cl, db |-> db, res |-> "invalid_token"]
    ELSE IF ByToken(cl, tok) # {}
    THEN [clones |-> cl, db |-> db, res |-> "token_used"]
    ELSE [clones |-> cl \cup {CloneBotDoc(tok, creator, admin)},
          db |-> SetCloneFields(db, creator, TRUE, tok.id),
          res |-> "created"]

\* CloneManager.create_clone_bot run without interruption:
\* [clones, db, res]; every result but "created" is an exception raised to
\* the caller
CreateCloneBot(cl, db, tok, creator, admin, valid) ==
    IF ~valid THEN [clones |-> cl, db |-> db, res |-> "invalid_token"]
    ELSE IF ByToken(cl, tok) # {}
    THEN [clones |-> cl, db |-> db, res |-> "token_used"]
    ELSE IF ByCreator(cl, creator) # {}
    THEN [clones |-> cl, db |-> db, res |-> "creator_has_clone"]
    ELSE [clones |-> cl \cup {CloneBotDoc(tok, creator, admin)},
          db |-> SetCloneFields(db, creator, TRUE, tok.id),
          res |-> "created"]

\* CloneManager.start_clone_bot: the registry afterwards
StartCloneBot(active, cl, tok, started) ==
    IF tok \in active THEN active
    ELSE IF \A c \in ByToken(cl, tok) : ~c.is_active THEN active
    ELSE IF started THEN active \cup {tok}
    ELSE active

\* CloneManager.stop_clone_bot: the registry afterwards
StopCloneBot(active, tok) == active \ {tok}

\* asyncio.create_task(self._run_clone_bot(clone_bot)) on a Bot Core that
\* initialize() has just connected
NewTask == [state |-> "running", is_connected |-> TRUE]

StartCloneTask_Restart(tasks, active, after, tok) ==
    IF tok \in after
    THEN [t \in DOMAIN tasks \cup {tok} |->
             IF t = tok THEN NewTask ELSE tasks[t]]
    ELSE tasks

\* start_clone_bot, lines 104-105: the task map once the registry went from
\* `active` to `after`
StartCloneTask(tasks, active, after, tok) ==
    IF tok \in after \ active
    THEN [t \in DOMAIN tasks \cup {tok} |->
             IF t = tok THEN NewTask ELSE tasks[t]]
    ELSE tasks

\* stop_clone_bot, lines 127-134: the task is cancelled and awaited and its
\* entry deleted, when the token is in the registry
StopCloneTask(tasks, active, tok) ==
    IF tok \in active
    THEN [t \in DOMAIN tasks \ {tok} |-> tasks[t]]
    ELSE tasks

DeleteCloneBot_NoStop(cl, db, active, creator, victim) ==
    IF ByCreator(cl, creator) = {}
    THEN [clones |-> cl, db |-> db, active |-> active, ok |-> FALSE]
    ELSE [clones |-> cl \ {victim},
          db |-> SetCloneFields(db, creator, FALSE, None),
          active |-> active,
          ok |-> TRUE]

\* CloneManager.delete_clone_bot run without interruption, `victim` being
\* the record find_one and delete_one meet: [clones, db, active, ok]
DeleteCloneBot(cl, db, active, creator, victim) ==
    IF ByCreator(cl, creator) = {}
    THEN [clones |-> cl, db |-> db, active |-> active, ok |-> FALSE]
    ELSE [clones |-> cl \ {victim},
          db |-> SetCloneFields(db, creator, FALSE, None),
          active |-> StopCloneBot(active, victim.bot_token),
          ok |-> TRUE]

\* The records delete_clone_bot may meet for a creator; NoObj when none.
Victims(cl, creator) ==
    IF ByCreator(cl, creator) = {} THEN {NoObj} ELSE ByCreator(cl, creator)

\* The record of an invocation on the clone bots: Rec and the token or the
\* callback data it was given.
CloneRec(op, uid, tok, data, res) ==
    [op |-> op, uid |-> uid, code |-> NoCode, arg |-> "", res |-> res,
     before |-> NoObj, after |-> NoObj, streak |-> <<>>, caller |-> None,
     token |-> tok, data |-> data]

\* One more invocation on the clone bots may start.
BeginClone ==
    /\ ops < MaxOps
    /\ ops' = ops + 1
    /\ UNCHANGED <<now, calls, memVars, splitVars, pending_broadcast, activity,
                   procVars, liveVars>>

\* CloneManager.create_clone_bot called on its own
CallCreateCloneBot(creator, tok, admin, valid) ==
    /\ BeginClone
    /\ LET r == CreateCloneBot(clones, users, tok, creator, admin, valid)
       IN  /\ clones' = r.clones
           /\ users' = r.db
           /\ last' = CloneRec("create_clone_bot", creator, tok, <<>>, r.res)
    /\ UNCHANGED <<active_clones, clone_tasks, keyboard>>

\* The callback data f"{prefix}_{user_id}", split at "_"
WithUser(prefix, uid) == Append(prefix, ToString(uid))

\* CloneHandlers.handle_create_bot_with_params with a numeric admin id
HandleCreateBot(u, tok, admin, valid, started, code) ==
    /\ BeginClone
    /\ IF ~WellFormed(tok)
       THEN /\ last' = CloneRec("createbot", u, tok, <<>>, "bad_format")
            /\ UNCHANGED <<users, clones, active_clones, clone_tasks, keyboard>>
       ELSE LET g == GetOrCreateUser(users, u, code, now)
            IN  IF g.user.has_clone_bot
                THEN /\ users' = g.db
                     /\ last' = CloneRec("createbot", u, tok, <<>>, "has_clone")
                     /\ UNCHANGED <<clones, active_clones, clone_tasks, keyboard>>
                ELSE LET r == CreateCloneBot(clones, g.db, tok, u, admin, valid)
                         a == StartCloneBot(active_clones, r.clones, tok, started)
                     IN  /\ users' = r.db
                         /\ clones' = r.clones
                         /\ IF r.res = "created"
                            THEN /\ active_clones' = a
                                 /\ clone_tasks' =
                                       StartCloneTask(clone_tasks, active_clones, a, tok)
                                 /\ IF tok \in a
                                    THEN /\ keyboard' = {WithUser(<<"clone", "stats">>, u)}
                                         /\ last' = CloneRec("createbot", u, tok, <<>>, "created")
                                    ELSE /\ last' = CloneRec("createbot", u, tok, <<>>, "not_started")
                                         /\ UNCHANGED keyboard
                            ELSE /\ last' = CloneRec("createbot", u, tok, <<>>, r.res)
                                 /\ UNCHANGED <<active_clones, clone_tasks, keyboard>>

\* CloneManager.delete_clone_bot called on its own
CallDeleteCloneBot(creator) ==
    /\ BeginClone
    /\ \E victim \in Victims(clones, creator) :
          LET r == DeleteCloneBot(clones, users, active_clones, creator, victim)
          IN  /\ clones' = r.clones
              /\ users' = r.db
              /\ active_clones' = r.active
              /\ clone_tasks' =
                    IF r.ok
                    THEN StopCloneTask(clone_tasks, active_clones, victim.bot_token)
                    ELSE clone_tasks
              /\ last' = CloneRec("delete_clone_bot", creator, NoObj, <<>>,
                                  IF r.ok THEN "deleted" ELSE "none")
    /\ UNCHANGED keyboard

\* CloneHandlers.handle_delete_bot: the confirmation and its two buttons
HandleDeleteBot(u) ==
    /\ BeginClone
    /\ IF ByCreator(clones, u) = {}
       THEN /\ last' = CloneRec("deletebot", u, NoObj, <<>>, "no_clone")
            /\ UNCHANGED keyboard
       ELSE /\ last' = CloneRec("deletebot", u, NoObj, <<>>, "confirm")
            /\ keyboard' = {WithUser(<<"delete", "bot", "confirm">>, u),
                           <<"delete", "bot", "cancel">>}
    /\ UNCHANGED <<users, clones, active_clones, clone_tasks>>

\* str.startswith(prefix + "_") on callback data split at "_"
StartsWith(data, prefix) ==
    /\ Len(data) > Len(prefix)
    /\ SubSeq(data, 1, Len(prefix)) = prefix

\* int(data.split("_")[k]); None when it raises
IntAt(data, k) ==
    IF Len(data) > k /\ \E n \in Users : ToString(n) = data[k + 1]
    THEN CHOOSE n \in Users : ToString(n) = data[k + 1]
    ELSE None

\* CallbackHandlers.route_callback: the handler the data is routed to
RouteCallback(data) ==
    IF StartsWith(data, <<"clear", "memory">>) THEN "clear_memory_confirm"
    ELSE IF data = <<"cancel", "clear">> THEN "cancel_clear"
    ELSE IF StartsWith(data, <<"share", "referral">>) THEN "share_referral"
    ELSE IF data = <<"referral", "leaderboard">> THEN "referral_leaderboard"
    ELSE IF StartsWith(data, <<"admin">>) THEN "admin_callbacks"
    ELSE IF \/ StartsWith(data, <<"clone">>)
            \/ StartsWith(data, <<"confirm", "delete", "bot">>)
            \/ StartsWith(data, <<"delete", "bot">>) THEN "clone_callbacks"
    ELSE IF data = <<"confirm", "broadcast">> THEN "confirm_broadcast"
    ELSE IF data = <<"cancel", "broadcast">> THEN "cancel_broadcast"
    ELSE IF StartsWith(data, <<"maintenance">>) THEN "maintenance_callbacks"
    ELSE "unknown"

\* CallbackHandlers.handle_clone_callbacks: the branch taken for a press
\* by user u
CloneCallbackBranch(data, u) ==
    IF StartsWith(data, <<"clone", "stats">>)
    THEN IF IntAt(data, 2) = None THEN "error"
         ELSE IF IntAt(data, 2) # u THEN "not_yours" ELSE "stats"
    ELSE IF StartsWith(data, <<"refresh", "mybot">>)
    THEN IF IntAt(data, 2) = None THEN "error"
         ELSE IF IntAt(data, 2) # u THEN "not_yours" ELSE "refresh"
    ELSE IF StartsWith(data, <<"confirm", "delete", "bot">>)
    THEN IF IntAt(data, 3) = None THEN "error"
         ELSE IF IntAt(data, 3) # u THEN "not_yours" ELSE "delete"
    ELSE IF data = <<"delete", "bot", "cancel">> THEN "cancelled"
    ELSE "unknown_clone_command"

\* A press, by user u, of a button carrying `data` that the router hands to
\* handle_clone_callbacks
PressCloneButton(u, data) ==
    /\ BeginClone
    /\ RouteCallback(data) = "clone_callbacks"
    /\ LET b == CloneCallbackBranch(data, u)
       IN  IF b = "delete"
           THEN \E victim \in Victims(clones, u) :
                   LET r == DeleteCloneBot(clones, users, active_clones, u, victim)
                   IN  /\ clones' = r.clones
                       /\ users' = r.db
                       /\ active_clones' = r.active
                       /\ clone_tasks' =
                             IF r.ok
                             THEN StopCloneTask(clone_tasks, active_clones,
                                                victim.bot_token)
                             ELSE clone_tasks
                       /\ keyboard' = {}
                       /\ last' = CloneRec("press", u, NoObj, data,
                                           IF r.ok THEN "deleted" ELSE "delete_failed")
           ELSE /\ last' = CloneRec("press", u, NoObj, data,
                                    IF b = "stats" /\ ByCreator(clones, u) = {}
                                    THEN "not_found" ELSE b)
                /\ keyboard' =
                      IF b = "stats" /\ ByCreator(clones, u) # {}
                      THEN {WithUser(<<"clone", "stats">>, u),
                            WithUser(<<"refresh", "mybot">>, u)}
                      ELSE IF b = "cancelled" THEN {} ELSE keyboard
                /\ UNCHANGED <<users, clones, active_clones, clone_tasks>>

\* The clone bots, one invocation at a time.
NextClone ==
    \/ \E u \in Users, tok \in Tokens, valid \in BOOLEAN :
          CallCreateCloneBot(u, tok, u, valid)
    \/ \E u \in Users, tok \in Tokens, valid \in BOOLEAN, started \in BOOLEAN :
          \E code \in CreateCodes(u) : HandleCreateBot(u, tok, u, valid, started, code)
    \/ \E u \in Users : CallDeleteCloneBot(u)
    \/ \E u \in Users : HandleDeleteBot(u)
    \/ \E u \in Users, data \in keyboard : PressCloneButton(u, data)

SpecClone == Init /\ [][NextClone]_vars

C19_ConfirmPressDeletes ==
    [][ (/\ last'.op = "press"
         /\ last'.data = WithUser(<<"delete", "bot", "confirm">>, last'.uid)
         /\ last'.data \in keyboard
         /\ ByCreator(clones, last'.uid) # {})
        => /\ last'.res = "deleted"
           /\ ByCreator(clones', last'.uid) = {}
           /\ (last'.uid \in DOMAIN users' =>
                  /\ ~users'[last'.uid].has_clone_bot
                  /\ users'[last'.uid].clone_bot_id = None) ]_vars

----------------------------------------------------------------------------
(* /createbot and delete_clone_bot as the event loop runs them: every      *)
(* awaited database call is a step, and the steps of the invocations in    *)
(* flight interleave.  The clone_bots collection has a unique index on     *)
(* bot_token and a plain index on creator_id.                              *)

CloneFrame(op, pc, uid, tok, found) ==
    [op |-> op, pc |-> pc, uid |-> uid, user |-> NoObj, referrer |-> NoObj,
     token |-> tok, found |-> found]

StepClone ==
    UNCHANGED <<now, ops, memVars, splitVars, pending_broadcast, activity,
                keyboard, procVars, liveVars>>

\* Database.create_indexes on clone_bots: what insert_one accepts
IndexesAccept(cl, doc) == ByToken(cl, doc.bot_token) = {}

\* handle_create_bot_with_params up to its has_clone_bot check
CreateGetUser(s, u, tok) ==
    /\ FreeSlot(s)
    /\ ops < MaxOps
    /\ WellFormed(tok)
    /\ u \in DOMAIN users
    /\ ops' = ops + 1
    /\ LET g == GetOrCreateUser(users, u, NoCode, now)
       IN  /\ users' = g.db
           /\ IF g.user.has_clone_bot
              THEN /\ last' = CloneRec("createbot", u, tok, <<>>, "has_clone")
                   /\ UNCHANGED calls
              ELSE /\ calls' = [calls EXCEPT ![s] =
                                   CloneFrame("createbot", "creating", u, tok, NoObj)]
                   /\ UNCHANGED last
    /\ UNCHANGED <<now, memVars, splitVars, botVars, clone_tasks, procVars, liveVars>>

\* create_clone_bot: the session opened with the token, then
\* find_one({"bot_token": bot_token})
CreateFindToken(s, valid) ==
    /\ calls[s].pc = "creating"
    /\ IF ~valid
       THEN /\ last' = CloneRec("createbot", calls[s].uid, calls[s].token, <<>>,
                                "invalid_token")
            /\ calls' = [calls EXCEPT ![s] = Idle]
       ELSE IF ByToken(clones, calls[s].token) # {}
       THEN /\ last' = CloneRec("createbot", calls[s].uid, calls[s].token, <<>>,
                                "token_used")
            /\ calls' = [calls EXCEPT ![s] = Idle]
       ELSE /\ calls' = [calls EXCEPT ![s].pc = "token_free"]
            /\ UNCHANGED last
    /\ StepClone
    /\ UNCHANGED <<users, clones, active_clones, clone_tasks>>

\* create_clone_bot: find_one({"creator_id": creator_id})
CreateFindCreator(s) ==
    /\ calls[s].pc = "token_free"
    /\ IF ByCreator(clones, calls[s].uid) # {}
       THEN /\ last' = CloneRec("createbot", calls[s].uid, calls[s].token, <<>>,
                                "creator_has_clone")
            /\ calls' = [calls EXCEPT ![s] = Idle]
       ELSE /\ calls' = [calls EXCEPT ![s].pc = "creator_free"]
            /\ UNCHANGED last
    /\ StepClone
    /\ UNCHANGED <<users, clones, active_clones, clone_tasks>>

\* create_clone_bot: insert_one
CreateInsert(s) ==
    /\ calls[s].pc = "creator_free"
    /\ LET doc == CloneBotDoc(calls[s].token, calls[s].uid, calls[s].uid)
       IN  IF IndexesAccept(clones, doc)
           THEN /\ clones' = clones \cup {doc}
                /\ calls' = [calls EXCEPT ![s].pc = "inserted"]
                /\ UNCHANGED last
           ELSE /\ last' = CloneRec("createbot", calls[s].uid, calls[s].token,
                                    <<>>, "duplicate_key")
                /\ calls' = [calls EXCEPT ![s] = Idle]
                /\ UNCHANGED clones
    /\ StepClone
    /\ UNCHANGED <<users, active_clones, clone_tasks>>

\* create_clone_bot: the users update_one, then start_clone_bot and the reply
CreateUpdateUser(s, started) ==
    /\ calls[s].pc = "inserted"
    /\ users' = SetCloneFields(users, calls[s].uid, TRUE, calls[s].token.id)
    /\ active_clones' = StartCloneBot(active_clones, clones, calls[s].token, started)
    /\ clone_tasks' = StartCloneTask(clone_tasks, active_clones, active_clones',
                                     calls[s].token)
    /\ last' = CloneRec("createbot", calls[s].uid, calls[s].token, <<>>,
                        IF calls[s].token \in active_clones'
                        THEN "created" ELSE "not_started")
    /\ calls' = [calls EXCEPT ![s] = Idle]
    /\ StepClone
    /\ UNCHANGED clones

\* delete_clone_bot: find_one({"creator_id": creator_id})
DeleteFind(s, u) ==
    /\ FreeSlot(s)
    /\ ops < MaxOps
    /\ ops' = ops + 1
    /\ \E victim \in Victims(clones, u) :
          IF victim = NoObj
          THEN /\ last' = CloneRec("delete_clone_bot", u, NoObj, <<>>, "none")
               /\ UNCHANGED calls
          ELSE /\ calls' = [calls EXCEPT ![s] =
                               CloneFrame("delete", "found", u, victim.bot_token, victim)]
               /\ UNCHANGED last
    /\ UNCHANGED <<users, now, memVars, splitVars, botVars, clone_tasks, procVars, liveVars>>

\* delete_clone_bot: stop_clone_bot, then delete_one({"creator_id": ...}),
\* which removes one of the records that match, if any is left
DeleteOne(s) ==
    /\ calls[s].pc = "found"
    /\ active_clones' = StopCloneBot(active_clones, calls[s].token)
    /\ clone_tasks' = StopCloneTask(clone_tasks, active_clones, calls[s].token)
    /\ \E victim \in Victims(clones, calls[s].uid) : clones' = clones \ {victim}
    /\ calls' = [calls EXCEPT ![s].pc = "deleted"]
    /\ StepClone
    /\ UNCHANGED <<users, last>>

\* delete_clone_bot: the users update_one
DeleteUpdateUser(s) ==
    /\ calls[s].pc = "deleted"
    /\ users' = SetCloneFields(users, calls[s].uid, FALSE, None)
    /\ last' = CloneRec("delete_clone_bot", calls[s].uid, NoObj, <<>>, "deleted")
    /\ calls' = [calls EXCEPT ![s] = Idle]
    /\ StepClone
    /\ UNCHANGED <<clones, active_clones, clone_tasks>>

NextCloneConc ==
    \/ \E s \in Slots, u \in Users, tok \in Tokens : CreateGetUser(s, u, tok)
    \/ \E s \in Slots, valid \in BOOLEAN : CreateFindToken(s, valid)
    \/ \E s \in Slots : CreateFindCreator(s)
    \/ \E s \in Slots : CreateInsert(s)
    \/ \E s \in Slots, started \in BOOLEAN : CreateUpdateUser(s, started)
    \/ \E s \in Slots, u \in Users : DeleteFind(s, u)
    \/ \E s \in Slots : DeleteOne(s)
    \/ \E s \in Slots : DeleteUpdateUser(s)

SpecCloneConc == InitConc /\ [][NextCloneConc]_vars

\* C12: in every reachable state at most one CloneBot record exists per
\* creator_id, whatever the interleaving of /createbot invocations of one
\* user (two different tokens included) and of deletions.
C12_OneClonePerCreator ==
    \A c1 \in clones, c2 \in clones :
        c1.creator_id = c2.creator_id => c1 = c2

----------------------------------------------------------------------------
(* handlers/admin_handlers.py and the admin and broadcast callbacks of     *)
(* handlers/callback_handlers.py, on the primary bot.                      *)

\* UserService.set_admin
SetAdmin(db, uid, flag) ==
    IF uid \in DOMAIN db THEN [db EXCEPT ![uid].is_admin = flag] ELSE db

\* update_one(...).modified_count > 0 for a $set of one field
Modified(db, uid, field, value) ==
    uid \in DOMAIN db /\ db[uid][field] # value

BanUser_NoOwnerCheck(db, caller, target) ==
    IF ~IsAdmin(caller) THEN [db |-> db, res |-> "denied"]
    ELSE [db |-> SetBanned(db, target, TRUE),
          res |-> IF Modified(db, target, "is_banned", TRUE)
                  THEN "banned" ELSE "failed"]

\* The outcome of /ban <target>: [db, res]
BanUser(db, caller, target) ==
    IF ~IsAdmin(caller) THEN [db |-> db, res |-> "denied"]
    ELSE IF target = OWNER_ID THEN [db |-> db, res |-> "owner"]
    ELSE [db |-> SetBanned(db, target, TRUE),
          res |-> IF Modified(db, target, "is_banned", TRUE)
                  THEN "banned" ELSE "failed"]

\* The outcome of /unban <target>: [db, res]
UnbanUser(db, caller, target) ==
    IF ~IsAdmin(caller) THEN [db |-> db, res |-> "denied"]
    ELSE [db |-> SetBanned(db, target, FALSE),
          res |-> IF Modified(db, target, "is_banned", FALSE)
                  THEN "unbanned" ELSE "failed"]

\* The outcome of /addadmin <target> and /removeadmin <target>: [db, res]
AddAdmin(db, caller, target) ==
    IF caller # OWNER_ID THEN [db |-> db, res |-> "owner_only"]
    ELSE [db |-> SetAdmin(db, target, TRUE),
          res |-> IF Modified(db, target, "is_admin", TRUE)
                  THEN "added" ELSE "failed"]

RemoveAdmin(db, caller, target) ==
    IF caller # OWNER_ID THEN [db |-> db, res |-> "owner_only"]
    ELSE IF target = OWNER_ID THEN [db |-> db, res |-> "owner"]
    ELSE [db |-> SetAdmin(db, target, FALSE),
          res |-> IF Modified(db, target, "is_admin", FALSE)
                  THEN "removed" ELSE "failed"]

Broadcast_NoCheck(pending, caller, btext) ==
    [pending |-> [text |-> btext, admin_id |-> caller], res |-> "confirm"]

\* The outcome of /broadcast <text>: [pending, res]
Broadcast(pending, caller, btext) ==
    IF ~IsAdmin(caller) THEN [pending |-> pending, res |-> "denied"]
    ELSE [pending |-> [text |-> btext, admin_id |-> caller], res |-> "confirm"]

\* UserService.get_users_for_broadcast(exclude_banned=True)
GetUsersForBroadcast(db) == {u \in DOMAIN db : ~db[u].is_banned}

\* AdminHandlers.execute_broadcast, `fails` being the users the platform
\* refuses to deliver to: the counts returned
ExecuteBroadcast(db, admin_id, fails) ==
    LET user_ids == GetUsersForBroadcast(db)
        sent == user_ids \ {admin_id}
    IN  IF user_ids = {}
        THEN [success |-> 0, failed |-> 0, total |-> 0]
        ELSE [success |-> Cardinality(sent \ fails),
              failed |-> Cardinality(sent \cap fails),
              total |-> Cardinality(user_ids)]

NoCounts == [success |-> 0, failed |-> 0, total |-> 0]

\* The record of an admin command or callback: Rec with the caller, and
\* for a broadcast the counts reported and the deliveries that failed.
AdminRec(op, caller, target, res, result, fails) ==
    [op |-> op, uid |-> target, code |-> NoCode, arg |-> "", res |-> res,
     before |-> NoObj, after |-> NoObj, streak |-> <<>>, caller |-> caller,
     result |-> result, fails |-> fails]

\* One more admin command or callback may start.
BeginAdmin ==
    /\ ops < MaxOps
    /\ ops' = ops + 1
    /\ UNCHANGED <<now, calls, memVars, splitVars, clones, activity,
                   active_clones, clone_tasks, procVars, liveVars>>

\* AdminHandlers.handle_ban_user
HandleBanUser(caller, target) ==
    /\ BeginAdmin
    /\ LET r == BanUser(users, caller, target)
       IN  /\ users' = r.db
           /\ last' = AdminRec("ban", caller, target, r.res, NoCounts, {})
    /\ UNCHANGED <<pending_broadcast, keyboard>>

\* AdminHandlers.handle_unban_user
HandleUnbanUser(caller, target) ==
    /\ BeginAdmin
    /\ LET r == UnbanUser(users, caller, target)
       IN  /\ users' = r.db
           /\ last' = AdminRec("unban", caller, target, r.res, NoCounts, {})
    /\ UNCHANGED <<pending_broadcast, keyboard>>

\* AdminHandlers.handle_add_admin
HandleAddAdmin(caller, target) ==
    /\ BeginAdmin
    /\ LET r == AddAdmin(users, caller, target)
       IN  /\ users' = r.db
           /\ last' = AdminRec("addadmin", caller, target, r.res, NoCounts, {})
    /\ UNCHANGED <<pending_broadcast, keyboard>>

\* AdminHandlers.handle_remove_admin
HandleRemoveAdmin(caller, target) ==
    /\ BeginAdmin
    /\ LET r == RemoveAdmin(users, caller, target)
       IN  /\ users' = r.db
           /\ last' = AdminRec("removeadmin", caller, target, r.res, NoCounts, {})
    /\ UNCHANGED <<pending_broadcast, keyboard>>

\* The keyboards of /admin and /maintenance; the other panels have none
PanelKeyboard(cmd) ==
    IF cmd = "admin"
    THEN {<<"admin", "stats">>, <<"admin", "users">>, <<"admin", "broadcast">>,
          <<"admin", "maintenance">>, <<"admin", "ban">>, <<"admin", "unban">>,
          <<"admin", "give", "points">>, <<"admin", "reset", "points">>}
    ELSE IF cmd = "maintenance"
    THEN {<<"maintenance", "cleanup", "conversations">>,
          <<"maintenance", "cleanup", "users">>,
          <<"maintenance", "optimize", "memory">>,
          <<"maintenance", "reset", "points">>,
          <<"maintenance", "db", "stats">>,
          <<"maintenance", "system", "info">>}
    ELSE {}

PanelCommands == {"admin", "stats", "users", "userinfo", "maintenance"}

\* AdminHandlers.handle_admin_panel, handle_stats, handle_users_list,
\* handle_user_info and handle_maintenance: they read and reply
HandlePanel(caller, cmd) ==
    /\ BeginAdmin
    /\ IF ~IsAdmin(caller)
       THEN /\ last' = AdminRec(cmd, caller, None, "denied", NoCounts, {})
            /\ UNCHANGED keyboard
       ELSE /\ last' = AdminRec(cmd, caller, None, "shown", NoCounts, {})
            /\ keyboard' = IF PanelKeyboard(cmd) = {} THEN keyboard
                           ELSE PanelKeyboard(cmd)
    /\ UNCHANGED <<users, pending_broadcast>>

BroadcastTexts == {"halo", "info"}

\* AdminHandlers.handle_broadcast
HandleBroadcast(caller, btext) ==
    /\ BeginAdmin
    /\ LET r == Broadcast(pending_broadcast, caller, btext)
       IN  /\ pending_broadcast' = r.pending
           /\ last' = AdminRec("broadcast", caller, None, r.res, NoCounts, {})
           /\ keyboard' = IF r.res = "confirm"
                          THEN {<<"confirm", "broadcast">>, <<"cancel", "broadcast">>}
                          ELSE keyboard
    /\ UNCHANGED users

ConfirmBroadcastCheck_NoChecks(pending, u) ==
    IF pending = NoBroadcast THEN "no_data" ELSE "sent"

\* handle_confirm_broadcast, lines 309-317: the admin check, then the
\* pending record against the clicker
ConfirmBroadcastCheck(pending, u) ==
    IF ~IsAdmin(u) THEN "denied"
    ELSE IF pending = NoBroadcast \/ pending.admin_id # u THEN "no_data"
    ELSE "sent"

\* A press by user u of a button that the router hands to
\* handle_confirm_broadcast or handle_cancel_broadcast; a broadcast sent is
\* recorded with its text
PressBroadcastButton(u, data, fails) ==
    /\ BeginAdmin
    /\ RouteCallback(data) \in {"confirm_broadcast", "cancel_broadcast"}
    /\ IF RouteCallback(data) = "cancel_broadcast"
       THEN /\ fails = {}
            /\ pending_broadcast' = NoBroadcast
            /\ keyboard' = {}
            /\ last' = AdminRec("cancel_broadcast", u, None, "cancelled", NoCounts, {})
       ELSE IF ConfirmBroadcastCheck(pending_broadcast, u) # "sent"
       THEN /\ fails = {}
            /\ last' = AdminRec("confirm_broadcast", u, None,
                                ConfirmBroadcastCheck(pending_broadcast, u),
                                NoCounts, {})
            /\ UNCHANGED <<pending_broadcast, keyboard>>
       ELSE /\ pending_broadcast' = NoBroadcast
            /\ keyboard' = {}
            /\ last' = [AdminRec("confirm_broadcast", u, None, "sent",
                                 ExecuteBroadcast(users, u, fails), fails)
                           EXCEPT !.arg = pending_broadcast.text]
    /\ UNCHANGED users

\* A press by user u of a button that the router hands to
\* handle_admin_callbacks: none of the AdminHandlers methods it calls exists
PressAdminButton(u, data) ==
    /\ BeginAdmin
    /\ RouteCallback(data) = "admin_callbacks"
    /\ last' = AdminRec("admin_callback", u, None,
                        IF ~IsAdmin(u) THEN "denied"
                        ELSE IF \/ data \in {<<"admin", "stats">>, <<"admin", "users">>,
                                             <<"admin", "broadcast">>}
                                \/ StartsWith(data, <<"admin", "toggle", "ban">>)
                                \/ StartsWith(data, <<"admin", "toggle", "admin">>)
                        THEN "error" ELSE "unknown_admin_command",
                        NoCounts, {})
    /\ UNCHANGED <<users, pending_broadcast, keyboard>>

\* Callback data no keyboard carries but a client can send
CraftedData(u) ==
    {WithUser(<<"admin", "toggle", "ban">>, u),
     WithUser(<<"admin", "toggle", "admin">>, u)}

\* The admin commands and callbacks, with /start to register and
\* /givepoints and /resetpoints.
NextAdmin ==
    \/ \E u \in Users : \E code \in CreateCodes(u) : HandleStart(u, NoCode, code)
    \/ \E c \in Callers, u \in Users : HandleBanUser(c, u)
    \/ \E c \in Callers, u \in Users : HandleUnbanUser(c, u)
    \/ \E c \in Callers, u \in Users : HandleAddAdmin(c, u)
    \/ \E c \in Callers, u \in Users : HandleRemoveAdmin(c, u)
    \/ \E c \in Callers, cmd \in PanelCommands : HandlePanel(c, cmd)
    \/ \E c \in Callers, t \in BroadcastTexts : HandleBroadcast(c, t)
    \/ \E c \in Callers, data \in keyboard, fails \in SUBSET Users :
          PressBroadcastButton(c, data, fails)
    \/ \E c \in Callers, u \in Users : \E data \in keyboard \cup CraftedData(u) :
          PressAdminButton(c, data)
    \/ \E c \in Callers, u \in Users, pt \in PointTypes :
          HandleGivePoints(c, u, MaxGrant, pt)
    \/ \E c \in Callers, u \in Users : HandleResetPoints(c, u)

SpecAdmin == Init /\ [][NextAdmin]_vars

\* The commands AdminHandlers gates with its admin check.
AdminCommands ==
    {"admin", "ban", "unban", "stats", "broadcast", "users", "userinfo",
     "givepoints", "resetpoints", "maintenance"}

\* The recipients of a broadcast started by admin_id: the users that are
\* not banned, the initiating admin excepted.
Eligible(db, admin_id) == {u \in DOMAIN db : ~db[u].is_banned /\ u # admin_id}

\* C14: every execute_broadcast over N eligible recipients (non-banned users
\* other than the initiating admin) of which M sends fail returns counts with
\* success + failed = total = N and failed = M, also when the initiating
\* admin has a User record.
C14_BroadcastCounts ==
    [][ (last'.op = "confirm_broadcast" /\ last'.res = "sent")
        => LET N == Cardinality(Eligible(users, last'.caller))
               M == Cardinality(Eligible(users, last'.caller) \cap last'.fails)
           IN  /\ last'.result.success + last'.result.failed = last'.result.total
               /\ last'.result.total = N
               /\ last'.result.failed = M ]_vars

\* C16: an admin command sent by a caller who fails the admin check gets
\* the access-denied reply and changes no User record, no points and no
\* pending-broadcast state.
C16_DeniedChangesNothing ==
    [][ (last'.op \in AdminCommands /\ ~IsAdmin(last'.caller))
        => /\ last'.res = "denied"
           /\ users' = users
           /\ pending_broadcast' = pending_broadcast ]_vars

\* A caller without admin rights has been denied /broadcast while the
\* owner's broadcast awaits confirmation.
C16_Witness ==
    /\ last.op = "broadcast"
    /\ last.res = "denied"
    /\ ~IsAdmin(last.caller)
    /\ pending_broadcast # NoBroadcast
    /\ last.caller \in DOMAIN users

\* C17: a caller whose User record has the is_admin flag set (by the
\* owner's /addadmin) passes the admin check of the admin commands.
C17_FlaggedAdminAccepted ==
    [][ (/\ last'.op \in AdminCommands
         /\ last'.caller \in DOMAIN users
         /\ users[last'.caller].is_admin)
        => last'.res # "denied" ]_vars

\* C18: the User record of the configured owner never has is_banned set,
\* and /ban aimed at the owner id is refused and writes nothing.
C18_OwnerNeverBanned ==
    /\ [](OWNER_ID \in DOMAIN users => ~users[OWNER_ID].is_banned)
    /\ [][ (last'.op = "ban" /\ last'.uid = OWNER_ID)
           => /\ last'.res \in {"owner", "denied"}
              /\ users' = users ]_vars

\* The owner, registered, has aimed /ban at the owner id.
C18_Witness ==
    /\ last.op = "ban"
    /\ last.uid = OWNER_ID
    /\ last.caller = OWNER_ID
    /\ last.res = "owner"
    /\ OWNER_ID \in DOMAIN users

----------------------------------------------------------------------------
(* handlers/user_handlers.py: the default text and photo handlers.  The AI *)
(* Client either answers or raises (`ai`).                                 *)

AiOutcomes == {"ok", "raises"}

\* The record of a default-handler invocation: Rec and whether the AI
\* Client was called.
ChatRec(op, uid, res, ai_called) ==
    [op |-> op, uid |-> uid, code |-> NoCode, arg |-> "", res |-> res,
     before |-> NoObj, after |-> NoObj, streak |-> <<>>, caller |-> None,
     ai |-> ai_called]

BeginChat ==
    /\ ops < MaxOps
    /\ ops' = ops + 1
    /\ UNCHANGED <<now, calls, backups, conv_docs, splitVars, botVars,
                   clone_tasks, procVars, liveVars>>

\* MemoryService.add_message applied to the stored conversations
Remember(cv, uid, msg) ==
    Upsert(cv, uid, ConversationAddMessage(GetOrCreateConversation(cv, uid), msg))

\* The same on the record of everything ever added
Logged(lg, uid, msg) == Upsert(lg, uid, Append(GetOrCreateConversation(lg, uid), msg))

\* UserHandlers.handle_text_message on a text that is no referral code
HandleTextMessage(u, code, ai) ==
    /\ BeginChat
    /\ LET g == GetOrCreateUser(users, u, code, now)
       IN  /\ users' = g.db
           /\ IF g.user.is_banned
              THEN /\ last' = ChatRec("text", u, "banned", FALSE)
                   /\ UNCHANGED <<convs, log, nextMsg>>
              ELSE IF ai = "ok"
              THEN /\ convs' = Remember(Remember(convs, u, nextMsg), u, nextMsg + 1)
                   /\ log' = Logged(Logged(log, u, nextMsg), u, nextMsg + 1)
                   /\ nextMsg' = nextMsg + 2
                   /\ last' = ChatRec("text", u, "answered", TRUE)
              ELSE /\ convs' = Remember(convs, u, nextMsg)
                   /\ log' = Logged(log, u, nextMsg)
                   /\ nextMsg' = nextMsg + 1
                   /\ last' = ChatRec("text", u, "error", TRUE)

\* UserHandlers.handle_photo_message
HandlePhotoMessage(u, code, ai) ==
    /\ BeginChat
    /\ LET g == GetOrCreateUser(users, u, code, now)
       IN  /\ users' = g.db
           /\ IF g.user.is_banned
              THEN /\ last' = ChatRec("photo", u, "banned", FALSE)
                   /\ UNCHANGED <<convs, log, nextMsg>>
              ELSE IF ai = "ok"
              THEN /\ convs' = Remember(Remember(convs, u, nextMsg), u, nextMsg + 1)
                   /\ log' = Logged(Logged(log, u, nextMsg), u, nextMsg + 1)
                   /\ nextMsg' = nextMsg + 2
                   /\ last' = ChatRec("photo", u, "answered", TRUE)
              ELSE /\ last' = ChatRec("photo", u, "error", TRUE)
                   /\ UNCHANGED <<convs, log, nextMsg>>

\* The default handlers of one user, the owner's bans and grants, and the
\* image check.
NextChat ==
    \/ \E u \in Subjects, ai \in AiOutcomes :
          \E code \in CreateCodes(u) : HandleTextMessage(u, code, ai)
    \/ \E u \in Subjects, ai \in AiOutcomes :
          \E code \in CreateCodes(u) : HandlePhotoMessage(u, code, ai)
    \/ \E u \in Subjects : HandleBanUser(OWNER_ID, u)
    \/ \E u \in Subjects : HandleUnbanUser(OWNER_ID, u)
    \/ \E u \in Subjects, n \in 1..MaxGrant, pt \in PointTypes :
          HandleGivePoints(OWNER_ID, u, n, pt)
    \/ \E u \in Subjects, pt \in PointTypes : CallUsePointForImage(u, pt)
    \/ \E u \in Subjects : CallCanUserGenerateImage(u)

SpecChat == Init /\ [][NextChat]_vars

\* C13: for a user read as banned, can_user_generate_image returns false
\* whatever the point balances, and the default text and photo handlers
\* reply with the ban notice without calling the AI Client and without
\* appending to memory.
C13_BannedRefused ==
    [][ /\ (last'.op = "can_user_generate_image" /\ last'.before.is_banned)
           => last'.res = "false"
        /\ (/\ last'.op \in {"text", "photo"}
            /\ last'.uid \in DOMAIN users
            /\ users[last'.uid].is_banned)
           => /\ last'.res = "banned"
              /\ ~last'.ai
              /\ convs' = convs ]_vars

\* A banned user who holds referral points and a conversation has sent a
\* text.
C13_Witness ==
    /\ last.op = "text"
    /\ last.res = "banned"
    /\ last.uid \in DOMAIN convs
    /\ convs[last.uid] # <<>>
    /\ users[last.uid].referral_points > 0

----------------------------------------------------------------------------
(* UserService.cleanup_inactive_users and the maintenance panel.           *)
(*                                                                         *)
(* `activity` keeps last_activity as the stored UTC instant, in hours.     *)
(* `now` is the Asia/Jakarta wall clock, so the UTC instant is             *)
(* now - TzOffset.  The sweep takes datetime.now() without a time zone: the *)
(* wall clock of the server's own zone, which the deployment sets.         *)

CleanupDays == 90

\* UTC offsets, in hours, of the zone the server runs in.
ServerOffsets == {0, TzOffset}

\* User.update_activity and the create path: last_activity and
\* message_count after get_or_create_user at UTC instant t
Touch(act, uid, t) ==
    [u \in DOMAIN act \cup {uid} |->
        IF u = uid
        THEN [last_activity |-> t,
              message_count |-> IF uid \in DOMAIN act
                                THEN act[uid].message_count + 1 ELSE 0]
        ELSE act[u]]

\* datetime.now() - timedelta(days=days), as the driver encodes the naive
\* value: taken to be UTC
CutoffDate(t, days, offset) == (t - TzOffset) + offset - days * DayLen

\* UserService.cleanup_inactive_users: the users delete_many removes
CleanupInactiveUsers(db, act, t, days, offset) ==
    {u \in DOMAIN db :
        /\ act[u].last_activity < CutoffDate(t, days, offset)
        /\ act[u].message_count < 5
        /\ ~db[u].is_admin}

\* delete_many on the users collection
DeleteMany(f, gone) == [u \in DOMAIN f \ gone |-> f[u]]

BeginSweep ==
    /\ ops < MaxOps
    /\ ops' = ops + 1
    /\ UNCHANGED <<now, calls, memVars, splitVars, clones, pending_broadcast,
                   active_clones, clone_tasks, procVars, liveVars>>

\* UserService.get_or_create_user, as every handler calls it
CallGetOrCreateUser(u, code) ==
    /\ BeginSweep
    /\ users' = GetOrCreateUser(users, u, code, now).db
    /\ activity' = Touch(activity, u, now - TzOffset)
    /\ last' = Rec("get_or_create_user", u, NoCode, "", "done", NoObj, NoObj)
    /\ UNCHANGED keyboard

\* UserService.cleanup_inactive_users() on a server `offset` hours from UTC
CallCleanupInactiveUsers(offset) ==
    /\ BeginSweep
    /\ LET gone == CleanupInactiveUsers(users, activity, now, CleanupDays, offset)
       IN  /\ users' = DeleteMany(users, gone)
           /\ activity' = DeleteMany(activity, gone)
    /\ last' = Rec("cleanup_inactive_users", None, NoCode, "", "done", NoObj, NoObj)
    /\ UNCHANGED keyboard

\* /maintenance sent by caller: the panel and its keyboard
HandleMaintenance(caller) ==
    /\ BeginSweep
    /\ IF ~IsAdmin(caller)
       THEN /\ last' = AdminRec("maintenance", caller, None, "denied", NoCounts, {})
            /\ UNCHANGED keyboard
       ELSE /\ last' = AdminRec("maintenance", caller, None, "shown", NoCounts, {})
            /\ keyboard' = PanelKeyboard("maintenance")
    /\ UNCHANGED <<users, activity>>

\* A press by user u of a button that the router hands to
\* handle_maintenance_callbacks, the conversation cleanup excepted
PressMaintenanceButton(u, data, offset) ==
    /\ BeginSweep
    /\ RouteCallback(data) = "maintenance_callbacks"
    /\ data # <<"maintenance", "cleanup", "conversations">>
    /\ IF ~IsAdmin(u)
       THEN /\ last' = AdminRec("maintenance_callback", u, None, "denied", NoCounts, {})
            /\ UNCHANGED <<users, activity, keyboard>>
       ELSE IF data = <<"maintenance", "cleanup", "users">>
       THEN LET gone == CleanupInactiveUsers(users, activity, now, CleanupDays, offset)
            IN  /\ users' = DeleteMany(users, gone)
                /\ activity' = DeleteMany(activity, gone)
                /\ keyboard' = {}
                /\ last' = Rec("cleanup_inactive_users", None, NoCode, "", "done",
                               NoObj, NoObj)
       ELSE IF data = <<"maintenance", "reset", "points">>
       THEN /\ users' = ResetDailyPointsAll(users, now)
            /\ keyboard' = {}
            /\ last' = Rec("reset_daily_points", None, NoCode, "", "done", NoObj, NoObj)
            /\ UNCHANGED activity
       ELSE /\ keyboard' = {}
            /\ last' = AdminRec("maintenance_callback", u, None, "shown", NoCounts, {})
            /\ UNCHANGED <<users, activity>>

\* Time passes, half a tick at a time.
Pass ==
    /\ now + (TickHours \div 2) <= StartHour + MaxTicks * TickHours
    /\ now' = now + (TickHours \div 2)
    /\ last' = Rec("tick", None, NoCode, "", "done", NoObj, NoObj)
    /\ UNCHANGED <<users, ops, calls, memVars, splitVars, botVars, clone_tasks, procVars, liveVars>>

\* The Asia/Jakarta wall clock when the users of InitSweep were last seen:
\* one tick short of CleanupDays before the start.
FirstSeen == StartHour - CleanupDays * DayLen + TickHours

\* Two users registered long ago, each with few or with several messages.
InitSweep ==
    /\ users = InsertOne(InsertOne(EmptyDb, ToDoc(NewUser(1, 1, FirstSeen))),
                         ToDoc(NewUser(2, 2, FirstSeen)))
    /\ now = StartHour
    /\ ops = 2
    /\ last = Rec("init", None, NoCode, "", "done", NoObj, NoObj)
    /\ calls = <<>>
    /\ convs = EmptyDb
    /\ backups = {}
    /\ conv_docs = <<>>
    /\ log = <<>>
    /\ nextMsg = 1
    /\ text = <<>>
    /\ rest = <<>>
    /\ messages = <<>>
    /\ splitPc = "idle"
    /\ clones = {}
    /\ pending_broadcast = NoBroadcast
    /\ active_clones = {}
    /\ keyboard = {}
    /\ InitProc
    /\ InitLive
    /\ \E m1 \in {0, 4}, m2 \in {0, 4} :
          activity = [u \in {1, 2} |->
                         [last_activity |-> FirstSeen - TzOffset,
                          message_count |-> IF u = 1 THEN m1 ELSE m2]]

NextSweep ==
    \/ \E u \in Users : \E code \in CreateCodes(u) : CallGetOrCreateUser(u, code)
    \/ \E offset \in ServerOffsets : CallCleanupInactiveUsers(offset)
    \/ \E c \in Callers : HandleMaintenance(c)
    \/ \E c \in Callers, data \in keyboard, offset \in ServerOffsets :
          PressMaintenanceButton(c, data, offset)
    \/ \E c \in Callers, u \in Users : HandleAddAdmin(c, u)
    \/ Pass

SpecSweep == InitSweep /\ [][NextSweep]_vars

\* Hours since the user was last active.
IdleHours(u) == (now - TzOffset) - activity[u].last_activity

\* C15: cleanup_inactive_users deletes exactly the users that at once were
\* last active more than `days` days ago, have fewer than 5 messages and
\* are not flagged admin; every user failing one of the three is still
\* there afterwards.
C15_SweepExact ==
    [][ last'.op = "cleanup_inactive_users"
        => \A u \in DOMAIN users :
              u \notin DOMAIN users'
              <=> /\ IdleHours(u) > CleanupDays * DayLen
                  /\ activity[u].message_count < 5
                  /\ ~users[u].is_admin ]_vars

----------------------------------------------------------------------------
(* UserService.create_user and _generate_unique_referral_code as the event *)
(* loop runs them.  Here a referral code is the sequence of its            *)
(* characters.  The users collection has unique indexes on user_id and on  *)
(* referral_code.                                                          *)

CodeLen == 8

\* string.ascii_uppercase + string.digits
Alphabet ==
    {"A", "B", "C", "D", "E", "F", "G", "H", "I", "J", "K", "L", "M", "N",
     "O", "P", "Q", "R", "S", "T", "U", "V", "W", "X", "Y", "Z",
     "0", "1", "2", "3", "4", "5", "6", "7", "8", "9"}

\* The characters the draws below end in.
LastChars == {"A", "Z", "9"}

\* random.choices(Alphabet, k=CodeLen): the draws that differ only in the
\* last character
Draws == {[i \in 1..CodeLen |-> IF i = CodeLen THEN c ELSE "A"] : c \in LastChars}

NewUsers == {1, 2, 3}

CodeFrame(pc, uid, code) ==
    [op |-> "create_user", pc |-> pc, uid |-> uid, user |-> NoObj,
     referrer |-> NoObj, code |-> code]

UsersIndexesAccept_NoCodeIndex(db, doc) == doc.user_id \notin DOMAIN db

\* Database.create_indexes on users: what insert_one accepts
UsersIndexesAccept(db, doc) ==
    /\ doc.user_id \notin DOMAIN db
    /\ CodeOwners(db, doc.referral_code) = {}

StepCodes == UNCHANGED <<now, ops, memVars, splitVars, botVars, clone_tasks, procVars, liveVars>>

\* get_or_create_user finds no record; create_user starts and the
\* generator draws its first code
CreateDraw(s, u, code) ==
    /\ FreeSlot(s)
    /\ ops < MaxOps
    /\ u \notin DOMAIN users
    /\ ops' = ops + 1
    /\ calls' = [calls EXCEPT ![s] = CodeFrame("drawn", u, code)]
    /\ UNCHANGED <<users, now, last, memVars, splitVars, botVars, clone_tasks, procVars, liveVars>>

\* _generate_unique_referral_code: find_one({"referral_code": code})
\* returns; a code that has an owner is drawn again (`again`)
CreateFindCode(s, again) ==
    /\ calls[s].pc = "drawn"
    /\ calls' = IF CodeOwners(users, calls[s].code) # {}
                THEN [calls EXCEPT ![s].code = again]
                ELSE [calls EXCEPT ![s].pc = "unique"]
    /\ StepCodes
    /\ UNCHANGED <<users, last>>

\* create_user: insert_one
CreateInsertUser(s) ==
    /\ calls[s].pc = "unique"
    /\ LET doc == ToDoc(NewUser(calls[s].uid, calls[s].code, now))
       IN  IF UsersIndexesAccept(users, doc)
           THEN /\ users' = InsertOne(users, doc)
                /\ last' = Rec("create_user", calls[s].uid, NoCode, "", "created",
                               NoObj, NoObj)
           ELSE /\ last' = Rec("create_user", calls[s].uid, NoCode, "",
                               "duplicate_key", NoObj, NoObj)
                /\ UNCHANGED users
    /\ calls' = [calls EXCEPT ![s] = Idle]
    /\ StepCodes

InitCodes ==
    /\ users = EmptyDb
    /\ now = StartHour
    /\ ops = 0
    /\ last = Rec("init", None, NoCode, "", "done", NoObj, NoObj)
    /\ calls = [s \in Slots |-> Idle]
    /\ convs = EmptyDb
    /\ backups = {}
    /\ conv_docs = <<>>
    /\ log = <<>>
    /\ nextMsg = 1
    /\ text = <<>>
    /\ rest = <<>>
    /\ messages = <<>>
    /\ splitPc = "idle"
    /\ InitBot
    /\ InitProc
    /\ InitLive

NextCodes ==
    \/ \E s \in Slots, u \in NewUsers, code \in Draws : CreateDraw(s, u, code)
    \/ \E s \in Slots, again \in Draws : CreateFindCode(s, again)
    \/ \E s \in Slots : CreateInsertUser(s)

SpecCodes == InitCodes /\ [][NextCodes]_vars

\* A referral code as the spec wants it: CodeLen characters, each an
\* upper-case letter or a digit.
WellFormedCode(code) ==
    /\ Len(code) = CodeLen
    /\ \A i \in 1..Len(code) : code[i] \in Alphabet

\* C20: in every reachable state no two User records share a referral code
\* and every assigned code has 8 characters from the upper-case letters and
\* digits, however create_user calls interleave; and a generator that has
\* drawn a code some user owns draws again instead of returning it.
C20_CodesUnique ==
    /\ [](\A u \in DOMAIN users :
             /\ WellFormedCode(users[u].referral_code)
             /\ \A v \in DOMAIN users :
                   users[u].referral_code = users[v].referral_code => u = v)
    /\ [][ \A s \in Slots :
              (/\ calls[s].pc = "drawn"
               /\ calls'[s] # calls[s]
               /\ CodeOwners(users, calls[s].code) # {})
              => /\ calls'[s].pc = "drawn"
                 /\ calls'[s].code \in Draws
                 /\ users' = users ]_vars

\* Two invocations drew the same code and both found it free; the first
\* has inserted its user, the second has been refused by the index.
C20_Witness ==
    /\ last.op = "create_user"
    /\ last.res = "duplicate_key"
    /\ last.uid \notin DOMAIN users
    /\ Cardinality(DOMAIN users) >= 2

----------------------------------------------------------------------------
(* main.py: the process from main() to its exit.  startup_checks and       *)
(* BotManager.start run once, one step per awaited call; every signal      *)
(* creates a task that runs BotManager.stop beside the handlers of the     *)
(* bots still running.  Whether the storage server and the chat platform   *)
(* answer is an input of the step that connects.                           *)

\* signal.signal(...) in _setup_signal_handlers
Signals == {"SIGINT", "SIGTERM"}

\* The environments main() may be started in
Environments == SUBSET Required

\* The token of a clone that an earlier run of the process created for
\* user 2 and left in storage
PriorToken == [id |-> 10000001, secret |-> "A"]

\* The local frame of one BotManager.stop task
StopFrame(at, snapshot) == [pc |-> at, snapshot |-> snapshot]

\* What the steps of main() leave alone
StepMain ==
    UNCHANGED <<users, now, ops, last, calls, memVars, splitVars, clones,
                pending_broadcast, activity, keyboard, liveVars>>

\* startup_checks, lines 138-139: database.connect() and database.close()
StartupConnect(reachable) ==
    /\ mainPc = "startup_checks"
    /\ opened' = opened \cup {"storage"}
    /\ mainPc' = IF reachable THEN "check_vars" ELSE "aborted"
    /\ StepMain
    /\ UNCHANGED <<active_clones, clone_tasks, env, main_bot,
                   stops, shutdown_event>>

\* startup_checks, lines 143-151: the required settings
StartupCheckVars ==
    /\ mainPc = "check_vars"
    /\ mainPc' = IF Required \ env = {} THEN "validate" ELSE "aborted"
    /\ StepMain
    /\ UNCHANGED <<active_clones, clone_tasks, env, opened,
                   main_bot, stops, shutdown_event>>

\* BotManager.start, line 42: settings.validate()
Validate ==
    /\ mainPc = "validate"
    /\ mainPc' = IF Required \ env = {} THEN "initialize" ELSE "aborted"
    /\ StepMain
    /\ UNCHANGED <<active_clones, clone_tasks, env, opened,
                   main_bot, stops, shutdown_event>>

\* BotManager.start, lines 46-47: TelegramBot() and TelegramBot.initialize,
\* which connects to storage and then starts the platform client
Initialize(reachable, accepted) ==
    /\ mainPc = "initialize"
    /\ opened' = opened \cup {"storage"} \cup
                 (IF reachable THEN {"platform"} ELSE {})
    /\ IF reachable /\ accepted
       THEN /\ main_bot' = "running"
            /\ mainPc' = "start_clones"
       ELSE /\ mainPc' = "aborted"
            /\ UNCHANGED main_bot
    /\ StepMain
    /\ UNCHANGED <<active_clones, clone_tasks, env, stops,
                   shutdown_event>>

\* CloneManager.start_all_clone_bots: start_clone_bot for every active
\* record, `up` being the tokens whose Bot Core initializes
StartAllCloneBots(up) ==
    /\ mainPc = "start_clones"
    /\ up \subseteq {c.bot_token : c \in {d \in clones : d.is_active}}
    /\ active_clones' = active_clones \cup up
    /\ clone_tasks' = [t \in DOMAIN clone_tasks \cup (up \ active_clones) |->
                          IF t \in up \ active_clones THEN NewTask
                          ELSE clone_tasks[t]]
    /\ mainPc' = "running"
    /\ StepMain
    /\ UNCHANGED <<env, opened, main_bot, stops, shutdown_event>>

\* signal_handler: asyncio.create_task(self.stop())
Signal(sig) ==
    /\ mainPc = "running"
    /\ sig \notin DOMAIN stops
    /\ stops' = [g \in DOMAIN stops \cup {sig} |->
                    IF g = sig THEN StopFrame("begin", {}) ELSE stops[g]]
    /\ StepMain
    /\ UNCHANGED <<active_clones, clone_tasks, mainPc, env,
                   opened, main_bot, shutdown_event>>

\* BotManager.stop, lines 78-83, and stop_all_clone_bots, lines 185-187: the
\* tokens in the registry are listed, one stop_clone_bot each; gather over
\* an empty list does not suspend
StopListClones(sig) ==
    /\ sig \in DOMAIN stops
    /\ stops[sig].pc = "begin"
    /\ stops' = [stops EXCEPT ![sig] =
                    StopFrame(IF active_clones = {} THEN "main" ELSE "gather",
                              active_clones)]
    /\ StepMain
    /\ UNCHANGED <<active_clones, clone_tasks, mainPc, env,
                   opened, main_bot, shutdown_event>>

\* One stop_clone_bot of the gather completes
StopOneClone(sig, tok) ==
    /\ sig \in DOMAIN stops
    /\ stops[sig].pc = "gather"
    /\ tok \in stops[sig].snapshot
    /\ active_clones' = StopCloneBot(active_clones, tok)
    /\ clone_tasks' = StopCloneTask(clone_tasks, active_clones, tok)
    /\ stops' = [stops EXCEPT ![sig].snapshot = @ \ {tok}]
    /\ StepMain
    /\ UNCHANGED <<mainPc, env, opened, main_bot, shutdown_event>>

\* asyncio.gather returns once every stop_clone_bot has
StopGathered(sig) ==
    /\ sig \in DOMAIN stops
    /\ stops[sig].pc = "gather"
    /\ stops[sig].snapshot = {}
    /\ stops' = [stops EXCEPT ![sig].pc = "main"]
    /\ StepMain
    /\ UNCHANGED <<active_clones, clone_tasks, mainPc, env,
                   opened, main_bot, shutdown_event>>

\* BotManager.stop, line 89: main_bot.stop() returns; TelegramBot.stop
\* swallows what the client raises
StopMainBot(sig) ==
    /\ sig \in DOMAIN stops
    /\ stops[sig].pc = "main"
    /\ main_bot' = "stopped"
    /\ stops' = [stops EXCEPT ![sig].pc = "set"]
    /\ StepMain
    /\ UNCHANGED <<active_clones, clone_tasks, mainPc, env,
                   opened, shutdown_event>>

\* BotManager.stop, line 93: shutdown_event.set()
StopSetEvent(sig) ==
    /\ sig \in DOMAIN stops
    /\ stops[sig].pc = "set"
    /\ shutdown_event' = TRUE
    /\ stops' = [stops EXCEPT ![sig].pc = "done"]
    /\ StepMain
    /\ UNCHANGED <<active_clones, clone_tasks, mainPc, env,
                   opened, main_bot>>

\* BotManager.start, line 67: shutdown_event.wait() returns and main() ends
Exit ==
    /\ mainPc = "running"
    /\ shutdown_event
    /\ mainPc' = "exited"
    /\ StepMain
    /\ UNCHANGED <<active_clones, clone_tasks, env, opened,
                   main_bot, stops, shutdown_event>>

\* The primary bot dispatches updates to its handlers
Dispatching == mainPc = "running" /\ main_bot = "running"

\* main() is started: no connection yet, no bot, some environment; storage
\* is empty or holds the clone an earlier run created
InitMain ==
    /\ now = StartHour
    /\ ops = 0
    /\ last = Rec("init", None, NoCode, "", "done", NoObj, NoObj)
    /\ calls = <<>>
    /\ convs = EmptyDb
    /\ backups = {}
    /\ conv_docs = <<>>
    /\ log = <<>>
    /\ nextMsg = 1
    /\ text = <<>>
    /\ rest = <<>>
    /\ messages = <<>>
    /\ splitPc = "idle"
    /\ pending_broadcast = NoBroadcast
    /\ activity = EmptyDb
    /\ keyboard = {}
    /\ \E prior \in BOOLEAN :
          IF prior
          THEN /\ clones = {CloneBotDoc(PriorToken, 2, 2)}
               /\ users = SetCloneFields(
                             InsertOne(EmptyDb,
                                       ToDoc(NewUser(2, 2, StartHour))),
                             2, TRUE, PriorToken.id)
          ELSE /\ clones = {}
               /\ users = EmptyDb
    /\ active_clones = {}
    /\ clone_tasks = <<>>
    /\ mainPc = "startup_checks"
    /\ panels = <<>>
    /\ instances = <<>>
    /\ db_clients = <<>>
    /\ schedule = [jobs |-> 0, loops |-> 0]
    /\ env \in Environments
    /\ opened = {}
    /\ main_bot = "none"
    /\ stops = <<>>
    /\ shutdown_event = FALSE

\* The process: start-up, /createbot while the primary bot runs, shutdown.
NextMain ==
    \/ \E reachable \in BOOLEAN : StartupConnect(reachable)
    \/ StartupCheckVars
    \/ Validate
    \/ \E reachable \in BOOLEAN, accepted \in BOOLEAN :
          Initialize(reachable, accepted)
    \/ \E up \in SUBSET Tokens : StartAllCloneBots(up)
    \/ \E sig \in Signals : Signal(sig)
    \/ \E sig \in Signals : StopListClones(sig)
    \/ \E sig \in Signals, tok \in Tokens : StopOneClone(sig, tok)
    \/ \E sig \in Signals : StopGathered(sig)
    \/ \E sig \in Signals : StopMainBot(sig)
    \/ \E sig \in Signals : StopSetEvent(sig)
    \/ Exit
    \/ \E u \in Users, tok \in Tokens, valid \in BOOLEAN, started \in BOOLEAN :
          \E code \in CreateCodes(u) :
             Dispatching /\ HandleCreateBot(u, tok, u, valid, started, code)

SpecMain == InitMain /\ [][NextMain]_vars

\* C21: at process start-up the required settings (bot token, API id, API
\* hash, AI API key, owner id) are checked before any network connection is
\* attempted: while one of them is missing no storage or chat-platform
\* connection has been opened, up to and including the abort.
C21_ValidatesBeforeConnecting ==
    Required \ env # {} => opened = {}

\* C22: the shutdown latch is set only when no clone is left in the live
\* map and the primary bot's stop() has returned.
C22_LatchAfterStops ==
    shutdown_event => (active_clones = {} /\ main_bot = "stopped")

\* C23: total_points_used is a monotonic counter: no step of any operation
\* (a point use, /image with its refund, a reset, a grant) leaves a user's
\* stored total_points_used lower than it was.
C23_TotalUsedMonotonic ==
    [][ \A u \in DOMAIN users :
           u \in DOMAIN users' =>
              users'[u].total_points_used >= users[u].total_points_used ]_vars

----------------------------------------------------------------------------
(* core/clone_manager.py: the supervising tasks.  Each started clone has a *)
(* task that sleeps and, on waking, looks at client.is_connected of its    *)
(* Bot Core; the platform may drop that connection at any time.            *)

\* The platform connection of a running clone drops
Disconnect(tok) ==
    /\ mainPc = "running"
    /\ tok \in DOMAIN clone_tasks
    /\ clone_tasks[tok].is_connected
    /\ clone_tasks' = [clone_tasks EXCEPT ![tok].is_connected = FALSE]
    /\ StepMain
    /\ UNCHANGED <<active_clones, procVars>>

\* CloneManager._run_clone_bot after a sleep: the task map once the task of
\* `tok` has looked at client.is_connected
RunCloneBot(tasks, tok) ==
    IF tasks[tok].is_connected THEN tasks
    ELSE [tasks EXCEPT ![tok].state = "ended"]

\* The supervising task of a clone wakes from asyncio.sleep(60)
WakeCloneTask(tok) ==
    /\ mainPc = "running"
    /\ tok \in DOMAIN clone_tasks
    /\ clone_tasks[tok].state = "running"
    /\ clone_tasks' = RunCloneBot(clone_tasks, tok)
    /\ StepMain
    /\ UNCHANGED <<active_clones, procVars>>

\* One more call of the Clone Bot Manager may start.
BeginManager ==
    /\ mainPc = "running"
    /\ ops < MaxOps
    /\ ops' = ops + 1
    /\ UNCHANGED <<users, now, calls, memVars, splitVars, clones,
                   pending_broadcast, activity, keyboard, procVars, liveVars>>

\* CloneManager.start_clone_bot called on its own; the results that follow
\* the construction of a Bot Core are "started" and "start_failed"
CallStartCloneBot(tok, started) ==
    /\ BeginManager
    /\ active_clones' = StartCloneBot(active_clones, clones, tok, started)
    /\ clone_tasks' = StartCloneTask(clone_tasks, active_clones, active_clones', tok)
    /\ last' = CloneRec("start_clone_bot", None, tok, <<>>,
                        IF tok \in active_clones THEN "already_running"
                        ELSE IF \A c \in ByToken(clones, tok) : ~c.is_active
                        THEN "no_record"
                        ELSE IF started THEN "started" ELSE "start_failed")

\* CloneManager.stop_clone_bot called on its own
CallStopCloneBot(tok) ==
    /\ BeginManager
    /\ active_clones' = StopCloneBot(active_clones, tok)
    /\ clone_tasks' = StopCloneTask(clone_tasks, active_clones, tok)
    /\ last' = CloneRec("stop_clone_bot", None, tok, <<>>,
                        IF tok \in active_clones THEN "stopped" ELSE "not_running")

\* CloneManager.get_clone_bot_stats: is_running of the record find_one meets
CallGetCloneBotStats(creator) ==
    /\ BeginManager
    /\ \E c \in Victims(clones, creator) :
          last' = CloneRec("get_clone_bot_stats", creator,
                           IF c = NoObj THEN NoObj ELSE c.bot_token, <<>>,
                           IF c = NoObj THEN "none"
                           ELSE IF c.bot_token \in active_clones THEN "running"
                           ELSE "not_running")
    /\ UNCHANGED <<active_clones, clone_tasks>>


\* The Clone Bot Manager while the process runs: creation, deletion, the
\* manager's calls, disconnections and the supervising tasks.
NextTasks ==
    \/ \E u \in Users, tok \in Tokens, valid \in BOOLEAN, started \in BOOLEAN :
          \E code \in CreateCodes(u) : HandleCreateBot(u, tok, u, valid, started, code)
    \/ \E u \in Users : CallDeleteCloneBot(u)
    \/ \E tok \in Tokens : Disconnect(tok)
    \/ \E tok \in Tokens : WakeCloneTask(tok)
    \/ \E tok \in Tokens, started \in BOOLEAN : CallStartCloneBot(tok, started)
    \/ \E tok \in Tokens : CallStopCloneBot(tok)
    \/ \E u \in Users : CallGetCloneBotStats(u)

SpecTasks == Init /\ [][NextTasks]_vars

\* The supervising task of `tok` has ended and its entry is still there.
Orphaned(tok) ==
    tok \in DOMAIN clone_tasks /\ clone_tasks[tok].state = "ended"

\* C24: the supervising task of a clone ends only on seeing the connection
\* down, and the token then stays in the live map: as long as the task's
\* entry is there the token is registered, it leaves the registry only by
\* stop_clone_bot (called on its own or by delete_clone_bot), and meanwhile
\* get_clone_bot_stats reports the clone as running and start_clone_bot
\* returns true without building a Bot Core or touching either map.
C24_OrphanStaysLive ==
    /\ [](\A tok \in Tokens : Orphaned(tok) => tok \in active_clones)
    /\ [][ \A tok \in Tokens :
              /\ (/\ tok \in DOMAIN clone_tasks
                  /\ clone_tasks[tok].state = "running"
                  /\ tok \in DOMAIN clone_tasks'
                  /\ clone_tasks'[tok].state = "ended")
                 => ~clone_tasks[tok].is_connected /\ tok \in active_clones'
              /\ (Orphaned(tok) /\ tok \notin active_clones')
                 => /\ ops' = ops + 1
                    /\ last'.op \in {"stop_clone_bot", "delete_clone_bot"}
              /\ (/\ Orphaned(tok)
                  /\ ops' = ops + 1
                  /\ last'.op = "start_clone_bot"
                  /\ last'.token = tok)
                 => /\ last'.res = "already_running"
                    /\ active_clones' = active_clones
                    /\ clone_tasks' = clone_tasks
              /\ (/\ Orphaned(tok)
                  /\ ops' = ops + 1
                  /\ last'.op = "get_clone_bot_stats"
                  /\ last'.token = tok)
                 => last'.res = "running" ]_vars

\* C24 witness: start_clone_bot has just answered "already running" for a
\* token whose supervising task had ended.
C24_Witness ==
    /\ last.op = "start_clone_bot"
    /\ last.res = "already_running"
    /\ Orphaned(last.token)
    /\ last.token \in active_clones

\* C25: a delete_clone_bot(creator) that returns true leaves no CloneBot
\* record of the creator, the record's token in neither the live map nor the
\* task map, and the creator's has_clone_bot false and clone_bot_id empty; a
\* call that finds no record of the creator returns false and changes
\* nothing.
C25_DeleteRemovesAll ==
    [][ (ops' = ops + 1 /\ last'.op = "delete_clone_bot")
        => /\ last'.res \in {"deleted", "none"}
           /\ last'.res = "deleted"
              => /\ ByCreator(clones, last'.uid) # {}
                 /\ ByCreator(clones', last'.uid) = {}
                 /\ \A c \in ByCreator(clones, last'.uid) :
                       /\ c.bot_token \notin active_clones'
                       /\ c.bot_token \notin DOMAIN clone_tasks'
                 /\ last'.uid \in DOMAIN users'
                    => /\ ~users'[last'.uid].has_clone_bot
                       /\ users'[last'.uid].clone_bot_id = None
           /\ ByCreator(clones, last'.uid) = {}
              => /\ last'.res = "none"
                 /\ UNCHANGED <<users, clones, active_clones, clone_tasks,
                                convs, keyboard, pending_broadcast>> ]_vars

\* C25 witness: delete_clone_bot has just returned true for a creator whose
\* clone is gone from storage and from both maps.
C25_Witness ==
    /\ last.op = "delete_clone_bot"
    /\ last.res = "deleted"
    /\ last.uid \in DOMAIN users
    /\ ~users[last.uid].has_clone_bot
    /\ ByCreator(clones, last.uid) = {}
    /\ active_clones = {}
    /\ clone_tasks = <<>>
    /\ keyboard # {}

----------------------------------------------------------------------------
(* services/memory_service.py as the event loop runs it: add_message and   *)
(* get_or_create_conversation suspend at every storage call, and the calls *)
(* in flight interleave.  The conversations collection has one compound    *)
(* index on (user_id, timestamp) and it is not unique, so the collection   *)
(* is the list of its documents.  A filter on user_id that several         *)
(* documents match meets any one of them.                                  *)

\* Conversation.to_dict: the fields the calls read back
ConvDoc(uid, msgs) == [user_id |-> uid, messages |-> msgs]

\* The positions of the documents a filter {"user_id": uid} matches
Matches(docs, uid) == {i \in DOMAIN docs : docs[i].user_id = uid}

\* The local variables of one call: the messages of its Conversation object,
\* the content it appends, what it returned
MemFrame(op, at, uid, conv, msg, res) ==
    [op |-> op, pc |-> at, uid |-> uid, conv |-> conv, msg |-> msg,
     res |-> res]

MemIdle == MemFrame("none", "idle", None, <<>>, None, FALSE)

\* A new call takes the first slot whose call has returned.
MemFree(s) ==
    /\ calls[s].pc \in {"idle", "returned"}
    /\ \A r \in Slots : calls[r].pc \in {"idle", "returned"} => s <= r

StepMemConc ==
    UNCHANGED <<users, now, last, convs, backups, log, splitVars, botVars,
                clone_tasks, procVars, liveVars>>

\* get_conversation of add_message or get_or_create_conversation: find_one
FindConversation(s, u, op) ==
    /\ MemFree(s)
    /\ ops < MaxOps
    /\ ops' = ops + 1
    /\ nextMsg' = nextMsg + 1
    /\ IF Matches(conv_docs, u) = {}
       THEN calls' = [calls EXCEPT ![s] =
                         MemFrame(op, "create", u, <<>>, nextMsg, FALSE)]
       ELSE \E i \in Matches(conv_docs, u) :
               calls' = [calls EXCEPT ![s] =
                            MemFrame(op, IF op = "add_message" THEN "update"
                                         ELSE "returned",
                                     u, conv_docs[i].messages, nextMsg,
                                     op # "add_message")]
    /\ UNCHANGED conv_docs
    /\ StepMemConc

\* create_conversation: insert_one of an empty Conversation
CreateConversation(s) ==
    /\ calls[s].pc = "create"
    /\ conv_docs' = Append(conv_docs, ConvDoc(calls[s].uid, <<>>))
    /\ calls' = [calls EXCEPT ![s].pc = IF calls[s].op = "add_message"
                                        THEN "update" ELSE "returned",
                              ![s].res = calls[s].op # "add_message"]
    /\ UNCHANGED <<ops, nextMsg>>
    /\ StepMemConc

UpdateOneSet_Push(docs, i, conv, m) ==
    [docs EXCEPT ![i].messages = ConversationAddMessage(@, m)]

\* add_message, lines 61-68: conversation.add_message on the object the
\* call holds, and update_one with $set of its to_dict() on document i
UpdateOneSet(docs, i, conv, m) ==
    [docs EXCEPT ![i].messages = ConversationAddMessage(conv, m)]

\* add_message: the update_one (upsert=True) and the return
UpdateConversation(s) ==
    /\ calls[s].pc = "update"
    /\ IF Matches(conv_docs, calls[s].uid) = {}
       THEN conv_docs' =
               Append(conv_docs,
                      ConvDoc(calls[s].uid,
                              ConversationAddMessage(calls[s].conv, calls[s].msg)))
       ELSE \E i \in Matches(conv_docs, calls[s].uid) :
               conv_docs' = UpdateOneSet(conv_docs, i, calls[s].conv, calls[s].msg)
    /\ calls' = [calls EXCEPT ![s].pc = "returned", ![s].res = TRUE]
    /\ UNCHANGED <<ops, nextMsg>>
    /\ StepMemConc

\* No call in flight; the collection is empty.
InitMemConc ==
    /\ users = EmptyDb
    /\ now = StartHour
    /\ ops = 0
    /\ last = Rec("init", None, NoCode, "", "done", NoObj, NoObj)
    /\ calls = [s \in Slots |-> MemIdle]
    /\ convs = EmptyDb
    /\ backups = {}
    /\ conv_docs = <<>>
    /\ log = <<>>
    /\ nextMsg = 1
    /\ text = <<>>
    /\ rest = <<>>
    /\ messages = <<>>
    /\ splitPc = "idle"
    /\ InitBot
    /\ InitProc
    /\ InitLive

\* The Memory Service with its calls interleaved.
NextMemConc ==
    \/ \E s \in Slots, u \in MemUsers,
          op \in {"add_message", "get_or_create_conversation"} :
          FindConversation(s, u, op)
    \/ \E s \in Slots : CreateConversation(s)
    \/ \E s \in Slots : UpdateConversation(s)

SpecMemConc == InitMemConc /\ [][NextMemConc]_vars

\* C26: there is at most one Conversation document per user_id, however
\* the add_message and get_or_create_conversation calls for a user without
\* a conversation interleave.
C26_OneConversationPerUser ==
    \A u \in MemUsers : Cardinality(Matches(conv_docs, u)) <= 1

\* C27: add_message writes back the whole Conversation it read with its own
\* message appended, whatever was stored in between, and returns true: of
\* two calls for one user that both read the conversation before either
\* wrote, only the later writer's message is stored.
C27_LastWriteWins ==
    [][ \A s \in Slots :
           (calls[s].pc = "update" /\ calls'[s].pc = "returned")
           => /\ calls'[s].res
              /\ \E i \in Matches(conv_docs', calls[s].uid) :
                    conv_docs'[i].messages =
                       ConversationAddMessage(calls[s].conv, calls[s].msg) ]_vars

\* C27 witness: two add_message calls for user 1, both below the cap and
\* both returned true, read the same conversation; the user's one stored
\* document holds the second call's message and not the first's.
C27_Witness ==
    /\ \A s \in Slots :
          /\ calls[s].op = "add_message"
          /\ calls[s].pc = "returned"
          /\ calls[s].res
          /\ calls[s].uid = 1
          /\ Len(calls[s].conv) < MAX_MEMORY_MESSAGES
    /\ calls[1].conv = calls[2].conv
    /\ calls[1].msg # calls[2].msg
    /\ Cardinality(Matches(conv_docs, 1)) = 1
    /\ \A i \in Matches(conv_docs, 1) :
          /\ conv_docs[i].messages = Append(calls[2].conv, calls[2].msg)
          /\ \A k \in DOMAIN conv_docs[i].messages :
                conv_docs[i].messages[k] # calls[1].msg

----------------------------------------------------------------------------
(* /clear and its confirmation: handlers/user_handlers.py 510-531 and      *)
(* handlers/callback_handlers.py 70-110.                                   *)

\* One more /clear command or press may start; it leaves the users alone.
BeginClear ==
    /\ ops < MaxOps
    /\ ops' = ops + 1
    /\ UNCHANGED <<users, now, calls, backups, conv_docs, nextMsg, splitVars,
                   clones, pending_broadcast, activity, active_clones,
                   clone_tasks, procVars, liveVars>>

\* UserHandlers.handle_clear_memory: the confirmation and its two buttons
HandleClearMemory(u) ==
    /\ BeginClear
    /\ keyboard' = {WithUser(<<"clear", "memory">>, u), <<"cancel", "clear">>}
    /\ last' = [ChatRec("clear", u, "confirm", FALSE) EXCEPT !.caller = u]
    /\ UNCHANGED <<convs, log>>

\* Conversation.clear_memory saved by MemoryService.clear_conversation
Cleared(db, uid) ==
    IF uid \in DOMAIN db THEN [db EXCEPT ![uid] = <<>>] ELSE db

ClearMemoryCheck_NoCheck(data, u) ==
    IF IntAt(data, 2) = None THEN "error" ELSE "cleared"

\* handle_clear_memory_confirm, lines 73-80: the user id in the callback
\* data and the clicker
ClearMemoryCheck(data, u) ==
    IF IntAt(data, 2) = None THEN "error"
    ELSE IF u # IntAt(data, 2) /\ ~IsAdmin(u) THEN "denied"
    ELSE "cleared"

\* A press, by user u, of a button that the router hands to
\* handle_clear_memory_confirm or handle_cancel_clear
PressClearButton(u, data) ==
    /\ BeginClear
    /\ RouteCallback(data) \in {"clear_memory_confirm", "cancel_clear"}
    /\ IF RouteCallback(data) = "cancel_clear"
       THEN /\ last' = [ChatRec("cancel_clear", None, "cancelled", FALSE)
                           EXCEPT !.caller = u]
            /\ keyboard' = {}
            /\ UNCHANGED <<convs, log>>
       ELSE LET b == ClearMemoryCheck(data, u)
                target == IntAt(data, 2)
            IN  /\ last' = [ChatRec("clear_memory_confirm", target, b, FALSE)
                               EXCEPT !.caller = u]
                /\ IF b = "cleared"
                   THEN /\ convs' = Cleared(convs, target)
                        /\ log' = Cleared(log, target)
                        /\ keyboard' = {}
                   ELSE UNCHANGED <<convs, log, keyboard>>

\* Chatting users, /clear and the presses of its buttons by anyone who
\* sees them.
NextClear ==
    \/ \E u \in Users : \E code \in CreateCodes(u) : HandleTextMessage(u, code, "ok")
    \/ \E u \in Users : HandleClearMemory(u)
    \/ \E u \in Users, data \in keyboard : PressClearButton(u, data)

SpecClear == Init /\ [][NextClear]_vars

\* C29: a press of the memory-clear confirm button empties the conversation
\* of the user id in its callback data, and no other, when the clicker is
\* that user or passes the admin check; a press by anyone else is refused
\* and leaves every conversation as it was.
C29_ClearOnlyByTargetOrAdmin ==
    [][ (ops' = ops + 1 /\ last'.op = "clear_memory_confirm")
        => LET target == last'.uid
               clicker == last'.caller
           IN  /\ target \in Users
               /\ IF clicker = target \/ IsAdmin(clicker)
                  THEN /\ last'.res = "cleared"
                       /\ target \in DOMAIN convs => convs'[target] = <<>>
                       /\ DOMAIN convs' = DOMAIN convs
                       /\ \A v \in DOMAIN convs \ {target} : convs'[v] = convs[v]
                  ELSE /\ last'.res = "denied"
                       /\ convs' = convs ]_vars

\* C29 witness: a user who is neither the target nor an admin has pressed
\* the confirm button of the owner's /clear and the owner's conversation
\* still holds its messages.
C29_Witness ==
    /\ last.op = "clear_memory_confirm"
    /\ last.res = "denied"
    /\ last.caller # last.uid
    /\ ~IsAdmin(last.caller)
    /\ last.uid \in DOMAIN convs
    /\ convs[last.uid] # <<>>

----------------------------------------------------------------------------
(* UserHandlers.handle_text_message with the message text as the sequence  *)
(* of its characters: handlers/user_handlers.py 713-776.                   *)

UpperLetters ==
    {"A", "B", "C", "D", "E", "F", "G", "H", "I", "J", "K", "L", "M", "N",
     "O", "P", "Q", "R", "S", "T", "U", "V", "W", "X", "Y", "Z"}

LowerLetters ==
    {"a", "b", "c", "d", "e", "f", "g", "h", "i", "j", "k", "l", "m", "n",
     "o", "p", "q", "r", "s", "t", "u", "v", "w", "x", "y", "z"}

Whitespace == {" "}

RefPrefix == <<"r", "e", "f", "_">>

\* str.startswith
TextStartsWith(s, p) == Len(s) >= Len(p) /\ SubSeq(s, 1, Len(p)) = p

RECURSIVE StripLeft(_)
StripLeft(s) ==
    IF s # <<>> /\ Head(s) \in Whitespace THEN StripLeft(Tail(s)) ELSE s

RECURSIVE StripRight(_)
StripRight(s) ==
    IF s # <<>> /\ s[Len(s)] \in Whitespace
    THEN StripRight(SubSeq(s, 1, Len(s) - 1)) ELSE s

\* str.strip
Strip(s) == StripRight(StripLeft(s))

\* str.isupper: a cased character, and no lower-case one
IsUpper(s) ==
    /\ \E i \in 1..Len(s) : s[i] \in UpperLetters
    /\ \A i \in 1..Len(s) : s[i] \notin LowerLetters

\* str.replace(p, ""): every occurrence, left to right
RECURSIVE Replace(_, _)
Replace(s, p) ==
    IF s = <<>> THEN <<>>
    ELSE IF TextStartsWith(s, p) THEN Replace(SubSeq(s, Len(p) + 1, Len(s)), p)
    ELSE <<Head(s)>> \o Replace(Tail(s), p)

\* The characters of the stored referral code c: the draws of Draws, in
\* the order of Codes.
CodeText(c) ==
    [i \in 1..CodeLen |-> IF i < CodeLen THEN "A" ELSE <<"A", "Z", "9">>[c]]

\* UserService.get_user_by_referral_code: find_one on the exact text
CodeNamed(txt) ==
    IF \E c \in Codes : CodeText(c) = txt
    THEN CHOOSE c \in Codes : CodeText(c) = txt
    ELSE NoCode

\* The condition of line 731
IsCandidate(user_text) ==
    TextStartsWith(user_text, RefPrefix)
        \/ (Len(user_text) = CodeLen /\ IsUpper(user_text))

\* Line 733
ReferralCodeOf(user_text) ==
    IF TextStartsWith(user_text, RefPrefix) THEN Replace(user_text, RefPrefix)
    ELSE user_text

TextRoute_IgnoresReferredBy(user, user_text) ==
    IF user.is_banned THEN "banned"
    ELSE IF IsCandidate(user_text) THEN "redeem"
    ELSE "chat"

\* Where handle_text_message takes the message of `user`: lines 723-738
TextRoute(user, user_text) ==
    IF user.is_banned THEN "banned"
    ELSE IF IsCandidate(user_text) /\ user.referred_by = None THEN "redeem"
    ELSE "chat"

\* The texts users send: the codes bare and behind ref_, ref_ alone and
\* doubled, and texts that miss the pattern by case, length or digits.
SentTexts ==
    {CodeText(c) : c \in Codes}
        \cup {RefPrefix \o CodeText(c) : c \in {1, 2}}
        \cup {RefPrefix,
              RefPrefix \o RefPrefix \o CodeText(1),
              <<"a", "a", "a", "a", "a", "a", "a", "a">>,
              <<"A", "A", "A", "A", "A", "A", "A">>,
              <<"A", "A", "A", "A", "A", "A", "A", " ">>,
              <<"9", "9", "9", "9", "9", "9", "9", "9">>,
              <<"h", "a", "l", "o">>}

\* The record of a text message: ChatRec, the text and the replies sent
TextRec(uid, txt, res, ai_called, replies) ==
    [op |-> "text_message", uid |-> uid, code |-> NoCode, arg |-> "",
     res |-> res, before |-> NoObj, after |-> NoObj, streak |-> <<>>,
     caller |-> uid, ai |-> ai_called, text |-> txt, replies |-> replies]

\* UserHandlers.handle_text_message
HandleText(u, txt, code, ai) ==
    /\ BeginChat
    /\ LET g == GetOrCreateUser(users, u, code, now)
           user_text == Strip(txt)
           route == TextRoute(g.user, user_text)
       IN  IF route = "banned"
           THEN /\ users' = g.db
                /\ last' = TextRec(u, txt, "banned", FALSE, <<"banned">>)
                /\ UNCHANGED <<convs, log, nextMsg>>
           ELSE IF route = "redeem"
           THEN LET r == ProcessReferral(g.db, u,
                                         CodeNamed(ReferralCodeOf(user_text)))
                IN  /\ users' = r.db
                    /\ last' = TextRec(u, txt, r.res, FALSE, <<"gift">>)
                    /\ UNCHANGED <<convs, log, nextMsg>>
           ELSE IF ai = "ok"
           THEN /\ users' = g.db
                /\ convs' = Remember(Remember(convs, u, nextMsg), u, nextMsg + 1)
                /\ log' = Logged(Logged(log, u, nextMsg), u, nextMsg + 1)
                /\ nextMsg' = nextMsg + 2
                /\ last' = TextRec(u, txt, "answered", TRUE, <<"answer">>)
           ELSE /\ users' = g.db
                /\ convs' = Remember(convs, u, nextMsg)
                /\ log' = Logged(log, u, nextMsg)
                /\ nextMsg' = nextMsg + 1
                /\ last' = TextRec(u, txt, "error", TRUE, <<"error">>)

\* Text messages of every kind, and the owner's bans.
NextText ==
    \/ \E u \in Users, txt \in SentTexts, ai \in AiOutcomes :
          \E code \in CreateCodes(u) : HandleText(u, txt, code, ai)
    \/ \E u \in Users : HandleBanUser(OWNER_ID, u)
    \/ \E u \in Users : HandleUnbanUser(OWNER_ID, u)

SpecText == Init /\ [][NextText]_vars

\* An all-uppercase token of exactly 8 characters, or a text beginning
\* with ref_
MatchesCodePattern(txt) ==
    \/ TextStartsWith(txt, RefPrefix)
    \/ /\ Len(txt) = CodeLen
       /\ IsUpper(txt)
       /\ \A i \in 1..Len(txt) : txt[i] \notin Whitespace

\* What the log of everything added to memory holds for u
LoggedFor(lg, u) == IF u \in DOMAIN lg THEN lg[u] ELSE <<>>

\* C30: a text message of exactly 8 characters, all upper-case, or
\* beginning with ref_, sent by a user who is not banned: with referred_by
\* unset it is a redemption attempt whose result message is the only reply,
\* nothing is added to memory and the AI Client is not called; with
\* referred_by set it goes through the AI chat pipeline (the text is added
\* to memory and the AI Client is called) and nothing is redeemed.
C30_CandidateCodeRedeemsOnce ==
    [][ (ops' = ops + 1 /\ last'.op = "text_message"
            /\ MatchesCodePattern(last'.text)
            /\ ~(last'.uid \in DOMAIN users /\ users[last'.uid].is_banned))
        => LET u == last'.uid
           IN  IF u \in DOMAIN users /\ users[u].referred_by # None
               THEN /\ last'.ai
                    /\ last'.res \in {"answered", "error"}
                    /\ Len(LoggedFor(log', u)) > Len(LoggedFor(log, u))
                    /\ users' = users
               ELSE /\ last'.res \in {"ok", "invalid", "self"}
                    /\ last'.replies = <<"gift">>
                    /\ ~last'.ai
                    /\ convs' = convs
                    /\ log' = log
                    /\ last'.res = "ok" <=> users'[u].referred_by # None ]_vars

\* C30 witness: a user who had redeemed a code has sent a text of the
\* pattern again and the AI Client answered it.
C30_Witness ==
    /\ last.op = "text_message"
    /\ MatchesCodePattern(last.text)
    /\ last.res = "answered"
    /\ last.ai
    /\ last.uid \in DOMAIN users
    /\ users[last.uid].referred_by # None
    /\ last.uid \in DOMAIN log

----------------------------------------------------------------------------
(* The total balance across /image (SpecPoints)                            *)

\* daily_points + referral_points of a stored user
TotalBalance(doc) == doc.daily_points + doc.referral_points

\* C31: every /image invocation that charges a point ends with the user's
\* total balance daily_points + referral_points equal to its value before
\* the invocation, whichever balance was charged.  Stated for the
\* invocations of a registered user in which no daily reset falls.
C31_ImageKeepsTotal ==
    [][(/\ ops' = ops + 1
        /\ last'.op = "image"
        /\ last'.res \in {"error", "refunded"}
        /\ last'.uid \in DOMAIN users
        /\ CheckDailyReset(FromDict(users[last'.uid]), now)
              = FromDict(users[last'.uid]))
       => TotalBalance(users'[last'.uid]) = TotalBalance(users[last'.uid])
      ]_vars

----------------------------------------------------------------------------
(* UserService.ban_user and unban_user beside the handler invocations of   *)
(* the user, which hold the record they read: services/user_service.py     *)
(* 52-99.                                                                  *)

\* UserService.ban_user: update_one $set of the one field, modified_count
ServiceBanUser(u) ==
    /\ Begin
    /\ users' = SetBanned(users, u, TRUE)
    /\ last' = Rec("ban_user", u, NoCode, "",
                   IF Modified(users, u, "is_banned", TRUE)
                   THEN "true" ELSE "false", NoObj, NoObj)
    /\ UNCHANGED now

\* UserService.unban_user
ServiceUnbanUser(u) ==
    /\ Begin
    /\ users' = SetBanned(users, u, FALSE)
    /\ last' = Rec("unban_user", u, NoCode, "",
                   IF Modified(users, u, "is_banned", FALSE)
                   THEN "true" ELSE "false", NoObj, NoObj)
    /\ UNCHANGED now

\* The /image and redemption invocations of one user, cut at their storage
\* awaits, and the bans and unbans of that user.
NextBanConc ==
    \/ \E s \in Slots, u \in Subjects : ImageGetUser(s, u)
    \/ \E s \in Slots : ImageUpdateActivity(s)
    \/ \E s \in Slots : ImageUsePoint(s)
    \/ \E s \in Slots : ImageRefund(s)
    \/ \E s \in Slots : ImageError(s)
    \/ \E s \in Slots, u \in Subjects, code \in Codes :
          ReferralGetReferrer(s, u, code)
    \/ \E s \in Slots : ReferralGetUser(s)
    \/ \E s \in Slots : ReferralUpdateNewUser(s)
    \/ \E s \in Slots : ReferralUpdateReferrer(s)
    \/ \E u \in Subjects : ServiceBanUser(u)
    \/ \E u \in Subjects : ServiceUnbanUser(u)

SpecBanConc == InitConc /\ [][NextBanConc]_vars

\* C32: once ban_user(id) has returned true, the stored record of that user
\* has is_banned = true in every state until unban_user(id) is called,
\* however the user's own handler invocations in flight interleave.  (The
\* handler steps leave `last` alone, so `last` names the ban until the next
\* ban or unban.)
C32_BanHolds ==
    (last.op = "ban_user" /\ last.res = "true") => users[last.uid].is_banned

----------------------------------------------------------------------------
(* ReferralService.process_referral invocations of several users,          *)
(* interleaved at their storage awaits: services/referral_service.py 23-60.*)

Redeemers == {1, 2, 3}

\* Three users have registered with /start.
InitRefConc ==
    /\ users = InsertOne(InsertOne(InsertOne(EmptyDb,
                   ToDoc(NewUser(1, 1, StartHour))),
                   ToDoc(NewUser(2, 2, StartHour))),
                   ToDoc(NewUser(3, 3, StartHour)))
    /\ now = StartHour
    /\ ops = 3
    /\ last = Rec("init", 0, NoCode, "", "done", NoObj, NoObj)
    /\ calls = [s \in Slots |-> Idle]
    /\ convs = EmptyDb
    /\ backups = {}
    /\ conv_docs = <<>>
    /\ log = EmptyDb
    /\ nextMsg = 1
    /\ text = <<>>
    /\ rest = <<>>
    /\ messages = <<>>
    /\ splitPc = "idle"
    /\ InitBot
    /\ InitProc
    /\ InitLive

NextRefConc ==
    \/ \E s \in Slots, u \in Redeemers, code \in Codes :
          ReferralGetReferrer(s, u, code)
    \/ \E s \in Slots : ReferralGetUser(s)
    \/ \E s \in Slots : ReferralUpdateNewUser(s)
    \/ \E s \in Slots : ReferralUpdateReferrer(s)

SpecRefConc == InitRefConc /\ [][NextRefConc]_vars

\* The users whose referred_by is u
ReferredBy(db, u) == {v \in DOMAIN db : db[v].referred_by = u}

\* C33: in every state with no process_referral invocation in flight, each
\* user's referral_count equals the number of users whose referred_by is
\* that user, however the invocations interleaved.
C33_CountMatchesReferred ==
    (\A s \in Slots : calls[s].pc = "idle")
        => \A u \in DOMAIN users :
              users[u].referral_count = Cardinality(ReferredBy(users, u))

----------------------------------------------------------------------------
(* /broadcast and the presses of its confirm button as the event loop runs *)
(* them: handlers/admin_handlers.py 382-437 and 979-1018,                  *)
(* handlers/callback_handlers.py 306-365.  Each confirmation message is a  *)
(* panel; `calls` is the list of the confirm handlers started so far.      *)

\* A confirmation message: the text of its command, what it shows now and
\* how many times the batched send of that command has been started
Panel(btext) == [text |-> btext, shown |-> "confirm", runs |-> 0]

\* A handle_confirm_broadcast invocation: the message pressed, the command
\* whose pending record it read and where it stands
ConfirmFrame(at, m, cmd) == [op |-> "confirm_broadcast", pc |-> at,
                             panel |-> m, cmd |-> cmd]

BeginPanel ==
    /\ ops < MaxOps
    /\ ops' = ops + 1
    /\ UNCHANGED <<users, now, memVars, splitVars, clones, activity,
                   active_clones, keyboard, clone_tasks, procVars, instances,
                   db_clients, schedule>>

StepPanel ==
    UNCHANGED <<users, now, ops, last, memVars, splitVars, clones, activity,
                active_clones, keyboard, clone_tasks, procVars, instances,
                db_clients, schedule>>

\* AdminHandlers.handle_broadcast: the pending record, then the
\* confirmation message with its two buttons
BroadcastCommand(caller, btext) ==
    /\ BeginPanel
    /\ LET r == Broadcast(pending_broadcast, caller, btext)
       IN  /\ pending_broadcast' = r.pending
           /\ last' = AdminRec("broadcast", caller, None, r.res, NoCounts, {})
           /\ panels' = IF r.res = "confirm"
                        THEN Append(panels, Panel(btext)) ELSE panels
    /\ UNCHANGED calls

\* A press of "Ya, Kirim" on panel m while it shows its buttons:
\* handle_confirm_broadcast up to its first await, lines 309-322
PressConfirm(u, m) ==
    /\ BeginPanel
    /\ panels[m].shown = "confirm"
    /\ LET b == ConfirmBroadcastCheck(pending_broadcast, u)
       IN  /\ last' = AdminRec("confirm_broadcast", u, None, b, NoCounts, {})
           /\ calls' = IF b = "sent"
                       THEN Append(calls, ConfirmFrame("checked", m, Len(panels)))
                       ELSE calls
    /\ UNCHANGED <<pending_broadcast, panels>>

\* edit_message_text of lines 322-324 on panel m: [ok, panels].  The
\* platform refuses an edit that changes nothing (MESSAGE_NOT_MODIFIED) and
\* the call raises.
EditProgress(ps, m) ==
    IF ps[m].shown = "progress" THEN [ok |-> FALSE, panels |-> ps]
    ELSE [ok |-> TRUE, panels |-> [ps EXCEPT ![m].shown = "progress"]]

\* Lines 322-330: the progress notice, then execute_broadcast begins
StartExecution(i) ==
    /\ calls[i].pc = "checked"
    /\ LET edited == EditProgress(panels, calls[i].panel)
       IN  IF ~edited.ok
           THEN /\ calls' = [calls EXCEPT ![i].pc = "failed"]
                /\ UNCHANGED panels
           ELSE /\ panels' = [edited.panels EXCEPT ![calls[i].cmd].runs = @ + 1]
                /\ calls' = [calls EXCEPT ![i].pc = "executing"]
    /\ UNCHANGED pending_broadcast
    /\ StepPanel

\* Lines 333-348: execute_broadcast has returned, the result is shown and
\* the pending record is cleared
FinishExecution(i) ==
    /\ calls[i].pc = "executing"
    /\ panels' = [panels EXCEPT ![calls[i].panel].shown = "result"]
    /\ pending_broadcast' = NoBroadcast
    /\ calls' = [calls EXCEPT ![i].pc = "done"]
    /\ StepPanel

\* handle_cancel_broadcast on panel m
PressCancel(u, m) ==
    /\ BeginPanel
    /\ panels[m].shown = "confirm"
    /\ panels' = [panels EXCEPT ![m].shown = "cancelled"]
    /\ pending_broadcast' = NoBroadcast
    /\ last' = AdminRec("cancel_broadcast", u, None, "cancelled", NoCounts, {})
    /\ UNCHANGED calls

\* The owner and another user have registered.
InitPanels ==
    /\ users = InsertOne(InsertOne(EmptyDb, ToDoc(NewUser(1, 1, StartHour))),
                         ToDoc(NewUser(2, 2, StartHour)))
    /\ now = StartHour
    /\ ops = 0
    /\ last = Rec("init", None, NoCode, "", "done", NoObj, NoObj)
    /\ calls = <<>>
    /\ convs = EmptyDb
    /\ backups = {}
    /\ conv_docs = <<>>
    /\ log = <<>>
    /\ nextMsg = 1
    /\ text = <<>>
    /\ rest = <<>>
    /\ messages = <<>>
    /\ splitPc = "idle"
    /\ InitBot
    /\ InitProc
    /\ InitLive

NextPanels ==
    \/ \E c \in Callers, t \in BroadcastTexts : BroadcastCommand(c, t)
    \/ \E u \in Callers, m \in DOMAIN panels : PressConfirm(u, m)
    \/ \E i \in DOMAIN calls : StartExecution(i)
    \/ \E i \in DOMAIN calls : FinishExecution(i)
    \/ \E u \in Callers, m \in DOMAIN panels : PressCancel(u, m)

SpecPanels == InitPanels /\ [][NextPanels]_vars

\* C34: the batched send of a /broadcast command is started at most once,
\* whatever confirm buttons are pressed and whenever the presses arrive.
C34_OneExecutionPerBroadcast ==
    \A m \in DOMAIN panels : panels[m].runs <= 1

----------------------------------------------------------------------------
(* CloneManager.start_clone_bot, stop_clone_bot and delete_clone_bot for   *)
(* one token as the event loop runs them: core/clone_manager.py 77-143 and *)
(* 217-249, core/bot.py 56-88 and 129-137.  `calls` is the list of the     *)
(* manager calls started so far, `instances` the list of the TelegramBot   *)
(* objects they created; `registered` marks the object that                *)
(* active_clones[token] holds and `task` follows the supervising task      *)
(* created for the object.                                                 *)

\* Database.connect: a new client replaces Database.client
Connect(dbs) == Append(dbs, "open")

\* Database.close: Database.client is closed
Close(dbs) ==
    IF dbs = <<>> THEN dbs ELSE [dbs EXCEPT ![Len(dbs)] = "closed"]

\* TelegramBot.initialize, lines 69-72: point_service.initialize and, inside
\* referral_service.initialize, that of a second PointService each register
\* a daily job and start a scheduler loop
InitializeServices(sch) == [jobs |-> sch.jobs + 2, loops |-> sch.loops + 2]

\* TelegramBot(...) in start_clone_bot, before initialize() has returned
NewInstance(tok) ==
    [token |-> tok, state |-> "initializing", registered |-> FALSE,
     task |-> "none"]

\* A manager call: `inst` is its local clone_bot, `awaited` the object
\* whose task it has cancelled and awaits
ManagerFrame(op, at, tok, inst, creator) ==
    [op |-> op, pc |-> at, token |-> tok, inst |-> inst, creator |-> creator,
     awaited |-> None]

\* The object active_clones[tok] holds
RegisteredAs(ins, tok) ==
    CHOOSE i \in DOMAIN ins : ins[i].token = tok /\ ins[i].registered

\* Lines 101-105: active_clones[tok] = clone_bot and clone_tasks[tok] = task
\* for the object i, whatever the maps held for the token
Register(ins, i) ==
    [j \in DOMAIN ins |->
        IF j = i
        THEN [ins[j] EXCEPT !.state = "initialized", !.registered = TRUE,
                            !.task = "running"]
        ELSE IF ins[j].token = ins[i].token
        THEN [ins[j] EXCEPT !.registered = FALSE]
        ELSE ins[j]]

\* Lines 133 and 136: both entries of the token are deleted
Unregister(ins, tok) ==
    [j \in DOMAIN ins |->
        IF ins[j].token = tok THEN [ins[j] EXCEPT !.registered = FALSE]
        ELSE ins[j]]

LiveFrame ==
    UNCHANGED <<now, memVars, splitVars, pending_broadcast, activity,
                keyboard, procVars, panels>>

BeginLive ==
    /\ ops < MaxOps
    /\ ops' = ops + 1
    /\ LiveFrame

StepLive == LiveFrame /\ UNCHANGED <<ops, last>>

\* start_clone_bot, lines 80-85: the registry check, then find_one is
\* awaited
StartCall(tok) ==
    /\ BeginLive
    /\ IF tok \in active_clones
       THEN /\ last' = CloneRec("start_clone_bot", None, tok, <<>>,
                                "already_running")
            /\ UNCHANGED calls
       ELSE /\ last' = CloneRec("start_clone_bot", None, tok, <<>>, "called")
            /\ calls' = Append(calls,
                               ManagerFrame("start", "lookup", tok, None, None))
    /\ UNCHANGED <<users, clones, active_clones, clone_tasks, instances,
                   db_clients, schedule>>

\* Lines 85-99: the record has been read; a Bot Core is constructed and its
\* initialize() is awaited
StartLookup(i) ==
    /\ calls[i].op = "start" /\ calls[i].pc = "lookup"
    /\ IF \A c \in ByToken(clones, calls[i].token) : ~c.is_active
       THEN /\ calls' = [calls EXCEPT ![i].pc = "returned_false"]
            /\ UNCHANGED instances
       ELSE /\ instances' = Append(instances, NewInstance(calls[i].token))
            /\ calls' = [calls EXCEPT ![i].pc = "initializing",
                                      ![i].inst = Len(instances) + 1]
    /\ UNCHANGED <<users, clones, active_clones, clone_tasks, db_clients,
                   schedule>>
    /\ StepLive

\* Lines 99-108: initialize() has returned or raised (`started`); when it
\* returned, both maps are written before the next await
StartRegister(i, started) ==
    /\ calls[i].op = "start" /\ calls[i].pc = "initializing"
    /\ db_clients' = Connect(db_clients)
    /\ IF started
       THEN /\ instances' = Register(instances, calls[i].inst)
            /\ active_clones' = active_clones \cup {calls[i].token}
            /\ clone_tasks' =
                  [t \in DOMAIN clone_tasks \cup {calls[i].token} |->
                      IF t = calls[i].token THEN NewTask ELSE clone_tasks[t]]
            /\ schedule' = InitializeServices(schedule)
            /\ calls' = [calls EXCEPT ![i].pc = "returned_true"]
       ELSE /\ instances' = [instances EXCEPT ![calls[i].inst].state = "failed"]
            /\ calls' = [calls EXCEPT ![i].pc = "returned_false"]
            /\ UNCHANGED <<active_clones, clone_tasks, schedule>>
    /\ UNCHANGED <<users, clones>>
    /\ StepLive

\* stop_clone_bot, lines 118-123, for the frame `f` of a stop or a delete:
\* the frame once the registry was checked; clone_bot.stop() is awaited
\* when the token is registered
StopChecked(f) ==
    IF f.token \in active_clones
    THEN [f EXCEPT !.pc = "stopping",
                   !.inst = RegisteredAs(instances, f.token)]
    ELSE [f EXCEPT !.pc = IF f.op = "delete" THEN "deleting"
                          ELSE "returned_true"]

\* stop_clone_bot called on its own
StopCall(tok) ==
    /\ BeginLive
    /\ last' = CloneRec("stop_clone_bot", None, tok, <<>>, "called")
    /\ calls' = Append(calls,
                       StopChecked(ManagerFrame("stop", "called", tok, None, None)))
    /\ UNCHANGED <<users, clones, active_clones, clone_tasks, instances,
                   db_clients, schedule>>

\* Lines 123-131: clone_bot.stop() has returned (the client stopped, the
\* storage client closed); the task in clone_tasks[tok] is cancelled and
\* awaited.  Without a task entry the registry entry is deleted at once,
\* which raises KeyError when it is gone.
StopStopped(i) ==
    /\ calls[i].op \in {"stop", "delete"} /\ calls[i].pc = "stopping"
    /\ instances' = [instances EXCEPT ![calls[i].inst].state = "stopped"]
    /\ db_clients' = Close(db_clients)
    /\ calls' = IF calls[i].token \in DOMAIN clone_tasks
                THEN [calls EXCEPT
                         ![i].pc = "cancelling",
                         ![i].awaited = RegisteredAs(instances, calls[i].token)]
                ELSE [calls EXCEPT ![i].pc = IF calls[i].op = "delete"
                                             THEN "deleting"
                                             ELSE "returned_false"]
    /\ UNCHANGED <<users, clones, active_clones, clone_tasks, schedule>>
    /\ StepLive

\* Lines 131-140: the cancelled task has ended; `del self.clone_tasks[tok]`
\* raises KeyError when another call has deleted the entry, otherwise both
\* entries are deleted, whichever object and task they hold by now
StopCancelled(i) ==
    /\ calls[i].op \in {"stop", "delete"} /\ calls[i].pc = "cancelling"
    /\ IF calls[i].token \in DOMAIN clone_tasks
       THEN /\ instances' = Unregister(
                               [instances EXCEPT ![calls[i].awaited].task = "ended"],
                               calls[i].token)
            /\ clone_tasks' = [t \in DOMAIN clone_tasks \ {calls[i].token} |->
                                  clone_tasks[t]]
            /\ active_clones' = active_clones \ {calls[i].token}
            /\ calls' = [calls EXCEPT ![i].pc =
                            IF calls[i].op = "delete" THEN "deleting"
                            ELSE "returned_true"]
       ELSE /\ calls' = [calls EXCEPT ![i].pc =
                            IF calls[i].op = "delete" THEN "deleting"
                            ELSE "returned_false"]
            /\ instances' = [instances EXCEPT ![calls[i].awaited].task = "ended"]
            /\ UNCHANGED <<clone_tasks, active_clones>>
    /\ UNCHANGED <<users, clones, db_clients, schedule>>
    /\ StepLive

\* delete_clone_bot, lines 220-227: the record of the creator has been
\* read and stop_clone_bot is entered
DeleteCall(creator) ==
    /\ BeginLive
    /\ last' = CloneRec("delete_clone_bot", creator, NoObj, <<>>, "called")
    /\ \E victim \in Victims(clones, creator) :
          calls' = Append(calls,
                      IF victim = NoObj
                      THEN ManagerFrame("delete", "returned_false", NoObj,
                                        None, creator)
                      ELSE StopChecked(ManagerFrame("delete", "called",
                                          victim.bot_token, None, creator)))
    /\ UNCHANGED <<users, clones, active_clones, clone_tasks, instances,
                   db_clients, schedule>>

\* Lines 229-246: delete_one and the update of the creator's record
DeleteRecord(i) ==
    /\ calls[i].op = "delete" /\ calls[i].pc = "deleting"
    /\ clones' = clones \ ByCreator(clones, calls[i].creator)
    /\ users' = SetCloneFields(users, calls[i].creator, FALSE, None)
    /\ calls' = [calls EXCEPT ![i].pc = "returned_true"]
    /\ UNCHANGED <<active_clones, clone_tasks, instances, db_clients, schedule>>
    /\ StepLive

\* User 2 owns a clone bot that is not running; the primary bot runs.
InitLiveClone ==
    /\ users = SetCloneFields(InsertOne(EmptyDb, ToDoc(NewUser(2, 2, StartHour))),
                              2, TRUE, PriorToken.id)
    /\ clones = {CloneBotDoc(PriorToken, 2, 2)}
    /\ now = StartHour
    /\ ops = 0
    /\ last = Rec("init", None, NoCode, "", "done", NoObj, NoObj)
    /\ calls = <<>>
    /\ convs = EmptyDb
    /\ backups = {}
    /\ conv_docs = <<>>
    /\ log = <<>>
    /\ nextMsg = 1
    /\ text = <<>>
    /\ rest = <<>>
    /\ messages = <<>>
    /\ splitPc = "idle"
    /\ pending_broadcast = NoBroadcast
    /\ activity = EmptyDb
    /\ active_clones = {}
    /\ keyboard = {}
    /\ InitProc
    /\ InitLive

NextLive ==
    \/ StartCall(PriorToken)
    \/ \E i \in DOMAIN calls : StartLookup(i)
    \/ \E i \in DOMAIN calls, started \in BOOLEAN : StartRegister(i, started)
    \/ StopCall(PriorToken)
    \/ \E i \in DOMAIN calls : StopStopped(i)
    \/ \E i \in DOMAIN calls : StopCancelled(i)
    \/ DeleteCall(2)
    \/ \E i \in DOMAIN calls : DeleteRecord(i)

SpecLive == InitLiveClone /\ [][NextLive]_vars

\* C35: every Bot Core that start_clone_bot has initialized for the token
\* and that has not been stopped is the one registered in active_clones,
\* and every supervising task still running is the one in clone_tasks,
\* however the start, stop and delete calls interleave.
C35_InitializedIsRegistered ==
    \A i \in DOMAIN instances :
        /\ instances[i].state = "initialized" => instances[i].registered
        /\ instances[i].task = "running" => instances[i].registered

----------------------------------------------------------------------------
(* The storage client and the scheduler across the Bot Core objects of the *)
(* process (SpecInstances): the primary bot's initialize() and stop(),     *)
(* create_clone_bot with its trial Bot Core, start_clone_bot,              *)
(* stop_clone_bot and delete_clone_bot, one manager call at a time, and    *)
(* the scheduled midnight.  core/bot.py 56-88 and 129-137,                 *)
(* core/clone_manager.py 16-143 and 217-249, config/database.py 13-57,     *)
(* services/point_service.py 18-23 and 220-250.                            *)

\* Database.client, the client Database.get_collection reads from
CurrentClient(dbs) == IF dbs = <<>> THEN "none" ELSE dbs[Len(dbs)]

\* A collection call on Database.client: an open client serves it; on a
\* closed client the driver either opens it again or raises, by its
\* version (`reopens`)
UseClient(dbs, reopens) ==
    IF CurrentClient(dbs) = "open" THEN [ok |-> TRUE, dbs |-> dbs]
    ELSE IF dbs # <<>> /\ reopens
    THEN [ok |-> TRUE, dbs |-> [dbs EXCEPT ![Len(dbs)] = "open"]]
    ELSE [ok |-> FALSE, dbs |-> dbs]

\* No manager call is in flight
Quiet ==
    \A i \in DOMAIN calls :
        calls[i].pc \in {"returned_true", "returned_false", "raised",
                         "returned"}

InstancesFrame ==
    UNCHANGED <<now, memVars, splitVars, pending_broadcast, activity,
                keyboard, panels, mainPc, env, opened, stops,
                shutdown_event>>

\* BotManager.start, lines 46-47: the primary TelegramBot and its
\* initialize(): database.connect(), the platform client, the services
PrimaryInitialize ==
    /\ main_bot = "none"
    /\ main_bot' = "running"
    /\ db_clients' = Connect(db_clients)
    /\ schedule' = InitializeServices(schedule)
    /\ last' = Rec("initialize", None, NoCode, "", "done", NoObj, NoObj)
    /\ InstancesFrame
    /\ UNCHANGED <<users, clones, ops, calls, active_clones, clone_tasks,
                   instances>>

\* BotManager.stop, line 89, once no clone is live: TelegramBot.stop of the
\* primary bot, client.stop() and database.close()
PrimaryStop ==
    /\ main_bot = "running"
    /\ Quiet
    /\ active_clones = {}
    /\ main_bot' = "stopped"
    /\ db_clients' = Close(db_clients)
    /\ last' = Rec("stop", None, NoCode, "", "done", NoObj, NoObj)
    /\ InstancesFrame
    /\ UNCHANGED <<users, clones, ops, calls, active_clones, clone_tasks,
                   instances, schedule>>

\* create_clone_bot, lines 22-33: the trial Bot Core is initialized and
\* stopped.  initialize() connects to storage first and raises when the
\* platform refuses the token (`valid`), before the services are
\* initialized and without stop() being called.
CreateTrial(tok, creator, valid) ==
    /\ main_bot = "running"
    /\ Quiet
    /\ BeginLive
    /\ last' = CloneRec("create_clone_bot", creator, tok, <<>>, "called")
    /\ instances' = Append(instances,
                       [NewInstance(tok) EXCEPT
                           !.state = IF valid THEN "stopped" ELSE "failed"])
    /\ db_clients' = IF valid THEN Close(Connect(db_clients))
                     ELSE Connect(db_clients)
    /\ schedule' = IF valid THEN InitializeServices(schedule) ELSE schedule
    /\ calls' = Append(calls,
                   ManagerFrame("create", IF valid THEN "checking" ELSE "raised",
                                tok, Len(instances) + 1, creator))
    /\ UNCHANGED <<users, clones, active_clones, clone_tasks>>

\* create_clone_bot, lines 35-71: the two find_one checks, insert_one and
\* the update of the creator's record on Database.client; the creator is
\* the clone's admin
CreateStore(i, reopens) ==
    /\ calls[i].op = "create" /\ calls[i].pc = "checking"
    /\ LET used == UseClient(db_clients, reopens)
           made == CreateCloneBot(clones, users, calls[i].token,
                                  calls[i].creator, calls[i].creator, TRUE)
       IN  /\ db_clients' = used.dbs
           /\ IF used.ok
              THEN /\ clones' = made.clones
                   /\ users' = made.db
                   /\ calls' = [calls EXCEPT ![i].pc =
                                   IF made.res = "created" THEN "returned"
                                   ELSE "raised"]
              ELSE /\ calls' = [calls EXCEPT ![i].pc = "raised"]
                   /\ UNCHANGED <<users, clones>>
    /\ UNCHANGED <<active_clones, clone_tasks, instances, schedule>>
    /\ StepLive

\* PointService._scheduler_loop at the scheduled midnight: the first loop
\* to wake runs schedule.run_pending(), which runs every job of the
\* process-wide scheduler that is due; each job is one
\* reset_daily_points().  The invocation records how many ran.
Midnight ==
    /\ main_bot = "running"
    /\ Quiet
    /\ BeginLive
    /\ LET fired == IF schedule.loops > 0 THEN schedule.jobs ELSE 0
       IN  /\ users' = IF fired > 0 THEN ResetDailyPointsAll(users, now)
                       ELSE users
           /\ last' = Rec("midnight", None, NoCode, fired, "done", NoObj,
                          NoObj)
    /\ UNCHANGED <<clones, calls, active_clones, clone_tasks, instances,
                   db_clients, schedule>>

\* The tokens the manager is called with
CloneTokens == {PriorToken, [id |-> 10000002, secret |-> "B"]}

\* The process before BotManager.start has initialized the primary bot;
\* user 2 owns a clone bot, which is not running.
InitInstances ==
    /\ users = SetCloneFields(InsertOne(EmptyDb, ToDoc(NewUser(2, 2, StartHour))),
                              2, TRUE, PriorToken.id)
    /\ clones = {CloneBotDoc(PriorToken, 2, 2)}
    /\ now = StartHour
    /\ ops = 0
    /\ last = Rec("init", None, NoCode, "", "done", NoObj, NoObj)
    /\ calls = <<>>
    /\ convs = EmptyDb
    /\ backups = {}
    /\ conv_docs = <<>>
    /\ log = <<>>
    /\ nextMsg = 1
    /\ text = <<>>
    /\ rest = <<>>
    /\ messages = <<>>
    /\ splitPc = "idle"
    /\ pending_broadcast = NoBroadcast
    /\ activity = EmptyDb
    /\ active_clones = {}
    /\ keyboard = {}
    /\ clone_tasks = <<>>
    /\ mainPc = "running"
    /\ env = Required
    /\ opened = {}
    /\ main_bot = "none"
    /\ stops = <<>>
    /\ shutdown_event = FALSE
    /\ panels = <<>>
    /\ instances = <<>>
    /\ db_clients = <<>>
    /\ schedule = [jobs |-> 0, loops |-> 0]

NextInstances ==
    \/ PrimaryInitialize
    \/ PrimaryStop
    \/ \E tok \in CloneTokens, valid \in BOOLEAN : CreateTrial(tok, 1, valid)
    \/ \E i \in DOMAIN calls, reopens \in BOOLEAN : CreateStore(i, reopens)
    \/ main_bot = "running" /\ Quiet /\ StartCall(PriorToken)
    \/ \E i \in DOMAIN calls : StartLookup(i)
    \/ \E i \in DOMAIN calls, started \in BOOLEAN : StartRegister(i, started)
    \/ main_bot = "running" /\ Quiet /\ StopCall(PriorToken)
    \/ \E i \in DOMAIN calls : StopStopped(i)
    \/ \E i \in DOMAIN calls : StopCancelled(i)
    \/ \E creator \in {1, 2} :
          main_bot = "running" /\ Quiet /\ DeleteCall(creator)
    \/ \E i \in DOMAIN calls : DeleteRecord(i)
    \/ Midnight

SpecInstances == InitInstances /\ [][NextInstances]_vars

\* C36: while the primary bot runs, between its initialize() and its
\* stop(), the client the shared Database object holds is open, whatever
\* clone bots are created, started, stopped and deleted; in particular
\* create_clone_bot makes its checks and its insert on an open client.
C36_ClientStaysOpen ==
    main_bot = "running" => CurrentClient(db_clients) = "open"


\* C39: the process-wide scheduler holds at most one daily reset job and
\* at most one scheduler loop runs, however many Bot Cores (primary, trial,
\* clone) have been initialized and stopped, and a scheduled midnight runs
\* the daily reset at most once.
C39_OneResetJob ==
    /\ schedule.jobs <= 1
    /\ schedule.loops <= 1
    /\ last.op = "midnight" => last.arg <= 1

----------------------------------------------------------------------------
(* The turn sequence the default text handler submits to the AI service    *)
(* (SpecTurns): handlers/user_handlers.py 740-765,                         *)
(* services/memory_service.py 52-85, models/conversation.py 61-77,         *)
(* core/gemini_client.py 36-80.  A stored message is its role, its content *)
(* and its type; `id` tells the occurrences of one content apart (the      *)
(* number of the message in the order of storing, None for the turns the   *)
(* AI Client makes up).                                                    *)

HistoryLimit == 10

\* The texts a user sends
InboundTexts == {"a", "b"}

\* Message(role, content, message_type)
Message(id, role, content, message_type) ==
    [id |-> id, role |-> role, content |-> content, type |-> message_type]

\* One turn in the AI service's format
Turn(id, role, content) == [id |-> id, role |-> role, text |-> content]

\* The messages of type "text" of a sequence, in order
RECURSIVE TextTurns(_)
TextTurns(msgs) ==
    IF msgs = <<>> THEN <<>>
    ELSE LET m == Head(msgs)
         IN  (IF m.type = "text"
              THEN <<Turn(m.id, IF m.role = "user" THEN "user" ELSE "model",
                          m.content)>>
              ELSE <<>>) \o TextTurns(Tail(msgs))

\* Conversation.get_gemini_format(limit)
GetGeminiFormat(msgs, limit) == TextTurns(LastN(msgs, limit))

\* MemoryService.get_conversation_history: [] without a conversation
GetConversationHistory(cv, uid, limit) ==
    IF uid \in DOMAIN cv THEN GetGeminiFormat(cv[uid], limit) ELSE <<>>

\* GeminiClient.generate_text_response, lines 43-69: the system prompt and
\* its acknowledgement, the history, the prompt; start_chat receives all
\* but the last and send_message the prompt, so the service is given the
\* whole sequence
SubmittedTurns(id, prompt, conversation_history) ==
    <<Turn(None, "user", "System"), Turn(None, "model", "Understood")>>
    \o conversation_history
    \o <<Turn(id, "user", prompt)>>

\* The record of a default text invocation: ChatRec, the number of the
\* inbound message and the turns submitted
TurnsRec(uid, res, id, turns) ==
    [op |-> "text", uid |-> uid, code |-> NoCode, arg |-> "", res |-> res,
     before |-> NoObj, after |-> NoObj, streak |-> <<>>, caller |-> None,
     ai |-> TRUE, msg |-> id, turns |-> turns]

\* UserHandlers.handle_text_message past the referral test, lines 740-765,
\* for a user who is not banned: the inbound text is added to memory, the
\* history is read, the AI Client is called and its response (or the
\* apology it returns when the service raises) is sent and added to memory
HandleDefaultText(u, code, txt, ai) ==
    /\ BeginChat
    /\ LET g == GetOrCreateUser(users, u, code, now)
           added == Remember(convs, u, Message(nextMsg, "user", txt, "text"))
           history == GetConversationHistory(added, u, HistoryLimit)
           response == IF ai = "ok" THEN "r" ELSE "Maaf"
       IN  /\ users' = g.db
           /\ ~g.user.is_banned
           /\ convs' = Remember(added, u,
                          Message(nextMsg + 1, "assistant", response, "text"))
           /\ log' = Logged(Logged(log, u, nextMsg), u, nextMsg + 1)
           /\ nextMsg' = nextMsg + 2
           /\ last' = TurnsRec(u, IF ai = "ok" THEN "answered" ELSE "apology",
                               nextMsg, SubmittedTurns(nextMsg, txt, history))

NextTurns ==
    \E u \in Users, txt \in InboundTexts, ai \in AiOutcomes :
        \E code \in CreateCodes(u) : HandleDefaultText(u, code, txt, ai)

SpecTurns == Init /\ [][NextTurns]_vars

\* The positions of a turn sequence that hold the message `id`
Occurrences(turns, id) == {i \in DOMAIN turns : turns[i].id = id}

\* C38: the turn sequence the default text handler submits to the AI
\* service holds the new inbound text exactly once, as its final user
\* turn, and not among the prior turns passed along with it.
C38_InboundTextOnce ==
    last.op = "text" =>
        Occurrences(last.turns, last.msg) = {Len(last.turns)}

----------------------------------------------------------------------------
(* The admin commands on a clone bot (SpecCloneAdmin): core/bot.py 139-154,*)
(* core/clone_manager.py 90-102, handlers/admin_handlers.py 68-70, 134-171,*)
(* 382-437 and 979-1024, handlers/callback_handlers.py 306-348.  A clone   *)
(* is a TelegramBot with is_clone set and the admin_id of its record; its  *)
(* services read and write the collections of the primary bot.             *)

\* The primary TelegramBot and the one start_clone_bot constructs from a
\* record, lines 91-97
PrimaryBot == [is_clone |-> FALSE, clone_admin_id |-> None]
CloneBotOf(c) == [is_clone |-> TRUE, clone_admin_id |-> c.admin_id]

\* TelegramBot.is_admin, and AdminHandlers.is_admin which adds is_owner
BotIsAdmin(bot, uid) ==
    \/ uid = OWNER_ID
    \/ (bot.is_clone /\ uid = bot.clone_admin_id)

\* The outcome of /ban <target> sent to the bot: [db, res]
BanUserOn(bot, db, caller, target) ==
    IF ~BotIsAdmin(bot, caller) THEN [db |-> db, res |-> "denied"]
    ELSE IF target = OWNER_ID THEN [db |-> db, res |-> "owner"]
    ELSE [db |-> SetBanned(db, target, TRUE),
          res |-> IF Modified(db, target, "is_banned", TRUE)
                  THEN "banned" ELSE "failed"]

\* AdminHandlers.handle_ban_user of the running clone with the token
CloneBanUser(tok, caller, target) ==
    /\ tok \in active_clones
    /\ BeginAdmin
    /\ \E c \in ByToken(clones, tok) :
          LET r == BanUserOn(CloneBotOf(c), users, caller, target)
          IN  /\ users' = r.db
              /\ last' = AdminRec("clone_ban", caller, target, r.res,
                                  NoCounts, {})
    /\ UNCHANGED <<pending_broadcast, keyboard>>

\* /broadcast <text> sent to the running clone and its confirm button
\* pressed by the sender: handle_broadcast stores the text on the clone's
\* bot object, handle_confirm_broadcast passes its two checks, runs
\* execute_broadcast over the users collection through the clone's own
\* client and deletes the stored text again.  `fails` are the users the
\* platform does not deliver to.
CloneBroadcast(tok, caller, fails) ==
    /\ tok \in active_clones
    /\ BeginAdmin
    /\ \E c \in ByToken(clones, tok) :
          IF ~BotIsAdmin(CloneBotOf(c), caller)
          THEN last' = AdminRec("clone_broadcast", caller, None, "denied",
                                NoCounts, {})
          ELSE /\ fails \subseteq GetUsersForBroadcast(users) \ {caller}
               /\ last' = AdminRec("clone_broadcast", caller, None, "sent",
                                   ExecuteBroadcast(users, caller, fails),
                                   fails)
    /\ UNCHANGED <<users, pending_broadcast, keyboard>>

\* The owner (user 1) and users 2 and 3 are registered; no clone bot
\* exists.
InitCloneAdmin ==
    /\ users = InsertOne(InsertOne(InsertOne(EmptyDb,
                  ToDoc(NewUser(1, 1, StartHour))),
                  ToDoc(NewUser(2, 2, StartHour))),
                  ToDoc(NewUser(3, 3, StartHour)))
    /\ now = StartHour
    /\ ops = 0
    /\ last = Rec("init", None, NoCode, "", "done", NoObj, NoObj)
    /\ calls = <<>>
    /\ convs = EmptyDb
    /\ backups = {}
    /\ conv_docs = <<>>
    /\ log = <<>>
    /\ nextMsg = 1
    /\ text = <<>>
    /\ rest = <<>>
    /\ messages = <<>>
    /\ splitPc = "idle"
    /\ clones = {}
    /\ pending_broadcast = NoBroadcast
    /\ activity = EmptyDb
    /\ active_clones = {}
    /\ keyboard = {}
    /\ InitProc
    /\ InitLive

NextCloneAdmin ==
    \/ \E u \in {2, 3}, admin \in {2, 3}, valid \in BOOLEAN,
          started \in BOOLEAN :
          HandleCreateBot(u, PriorToken, admin, valid, started, NoCode)
    \/ \E caller \in {1, 2}, target \in {1, 2, 3} : HandleBanUser(caller, target)
    \/ \E caller \in {1, 2}, target \in {2, 3} : HandleUnbanUser(caller, target)
    \/ \E caller \in {1, 2} : HandleBroadcast(caller, "info")
    \/ \E caller \in {1, 2, 3}, target \in {1, 2, 3} :
          CloneBanUser(PriorToken, caller, target)
    \/ \E caller \in {1, 2, 3}, fails \in SUBSET {1, 2, 3} :
          CloneBroadcast(PriorToken, caller, fails)

SpecCloneAdmin == InitCloneAdmin /\ [][NextCloneAdmin]_vars

\* C37: no command of a user other than the owner, on the primary bot or
\* on a clone bot whose admin the user is, sets another user's is_banned
\* flag or delivers a broadcast to the users.
C37_OnlyOwnerBansAndBroadcasts ==
    [][(/\ ops' = ops + 1
        /\ last'.op \in {"ban", "clone_ban", "broadcast", "clone_broadcast"}
        /\ last'.caller # OWNER_ID)
       => /\ \A t \in DOMAIN users :
                (t # last'.caller /\ ~users[t].is_banned)
                   => ~users'[t].is_banned
          /\ last'.result.success = 0
      ]_vars

====
